---- MODULE Spec2Model ----
(***************************************************************************)
(* Model of the Modulate report gateway (Hono worker):                     *)
(*   src/src/auth.ts            getJWKS, verifyToken, authMiddleware       *)
(*   src/src/routes/reports.ts  POST /reports/init, /reports/complete,     *)
(*                              POST /reports (legacy)                     *)
(*   src/src/index.ts           app.onError                                *)
(* Every request is a process that runs to completion between awaited     *)
(* network calls (jwtVerify, createSignedUploadUrl, insert); those awaits  *)
(* are the only places where requests interleave.                          *)
(***************************************************************************)
EXTENDS Integers, Sequences, FiniteSets, TLC

VARIABLES
    jwksCache,  \* auth.ts:11  module-level { jwks, timestamp }
    now,        \* Date.now()
    env,        \* c.env: SUPABASE_URL, SUPABASE_SERVICE_ROLE_KEY
    req,        \* the requests being handled, one record per slot
    reports,    \* the database table 'reports': id -> row
    uuids,      \* identifiers crypto.randomUUID() has produced
    created,    \* history: the times at which createRemoteJWKSet was called
    returned    \* history: the report_id values init has answered 200 with

vars == <<jwksCache, now, env, req, reports, uuids, created, returned>>

----------------------------------------------------------------------------
(* Bounds of the model *)

MaxHeaderLen == 4
MaxTicks == 3
MaxReports == 2
StartNow == 7200000

Slots == {1, 2}

(* Program constants *)

JWKS_CACHE_TTL == 3600000

----------------------------------------------------------------------------
(* JavaScript values.  A string is a sequence of atoms (an atom is a run of *)
(* characters the code never looks into); "" is <<>>.                       *)

Undef == <<"undefined">>
Null == <<"null">>
Bool(b) == <<"bool", b>>
Str(s) == <<"str", s>>
Num(n) == <<"num", n>>

IsStr(v) == v[1] = "str"
IsNullish(v) == v[1] \in {"undefined", "null"}

\* JavaScript truthiness: !v is ~Truthy(v)
Truthy(v) ==
    CASE v[1] = "undefined" -> FALSE
      [] v[1] = "null" -> FALSE
      [] v[1] = "bool" -> v[2]
      [] v[1] = "str" -> v[2] # <<>>
      [] v[1] = "num" -> v[2] # 0
      [] OTHER -> TRUE

\* a || null
OrNull(v) == IF Truthy(v) THEN v ELSE Null

\* a !== undefined ? a : null
DefinedOrNull(v) == IF v = Undef THEN Null ELSE v

\* a ?? null
CoalesceNull(v) == IF IsNullish(v) THEN Null ELSE v

SP == " "
TAB == "\t"

\* String.prototype.split(sep) for a one-atom separator: the parts between the
\* separators, empty parts kept ("" splits into one empty part).
RECURSIVE SplitFrom(_, _, _)
SplitFrom(s, sep, cur) ==
    IF s = <<>> THEN <<cur>>
    ELSE IF Head(s) = sep THEN <<cur>> \o SplitFrom(Tail(s), sep, <<>>)
    ELSE SplitFrom(Tail(s), sep, Append(cur, Head(s)))

Split(s, sep) == SplitFrom(s, sep, <<>>)

RECURSIVE SeqsUpTo(_, _)
SeqsUpTo(S, n) ==
    IF n = 0 THEN {<<>>}
    ELSE LET shorter == SeqsUpTo(S, n - 1)
         IN shorter \cup {Append(s, a) : s \in {t \in shorter : Len(t) = n - 1}, a \in S}

----------------------------------------------------------------------------
(* Deployment values and tokens *)

URL1 == "https://p1.supabase.co"
URL2 == "https://p2.supabase.co"

\* `${supabaseUrl}/auth/v1/.well-known/jwks.json`   (auth.ts:25)
JwksUrl(supabaseUrl) == supabaseUrl[2] \o <<"/auth/v1/.well-known/jwks.json">>

\* `${supabaseUrl}/auth/v1`   (auth.ts:56)
ExpectedIssuer(supabaseUrl) == supabaseUrl[2] \o <<"/auth/v1">>

\* createRemoteJWKSet(url) called at time t: a new key-set object for that url
Jwks(url, t) == <<"jwks", url, t>>

\* The issuer whose published keys a key-set object resolves to
KeysOf(jwks) == jwks[2]

\* What the compact JWS named by the atom "jwt" in a header carries:
\*   signer  the endpoint whose private key signed it ("attacker": none trusted)
\*   iss, aud, sub  claims;  expired  whether exp is in the past when verified
NoTok == [signer |-> <<>>, iss |-> <<>>, aud |-> "", expired |-> FALSE, sub |-> Undef]

TokenOf(url, sub) ==
    [signer |-> JwksUrl(Str(<<url>>)), iss |-> ExpectedIssuer(Str(<<url>>)),
     aud |-> "authenticated", expired |-> FALSE, sub |-> sub]

UserA == Str(<<"user-a">>)
UserB == Str(<<"user-b">>)

----------------------------------------------------------------------------
(* auth.ts *)

Ok(v) == <<"ok", v>>
Throw(msg) == <<"throw", msg>>
IsOk(res) == res[1] = "ok"

MsgMissingHeader == <<"Missing Authorization header">>
MsgInvalidFormat == <<"Invalid Authorization header format. Expected: Bearer <token>">>
MsgJwtFailed == "JWT verification failed: "

\* verifyToken, its synchronous header checks: the token, or the error thrown
HeaderCheck(authHeader) ==
    IF ~Truthy(authHeader) THEN Throw(MsgMissingHeader)
    ELSE LET parts == Split(authHeader[2], SP)
         IN IF Len(parts) # 2 \/ parts[1] # <<"Bearer">>
            THEN Throw(MsgInvalidFormat)
            ELSE Ok(Str(parts[2]))


\* Mutants of getJWKS: the age compared with 0 instead of the TTL; no expiry
GetJWKS_AnyAge(cache, supabaseUrl, t) ==
    IF ~Truthy(cache.jwks) \/ (t - cache.timestamp) > 0
    THEN [jwks |-> Jwks(JwksUrl(supabaseUrl), t), timestamp |-> t]
    ELSE cache

\* Mutants of getJWKS: the entry expires at the TTL, not after it; the
\* timestamp is left as it was
GetJWKS_ExpiresAtTTL(cache, supabaseUrl, t) ==
    IF ~Truthy(cache.jwks) \/ (t - cache.timestamp) >= JWKS_CACHE_TTL
    THEN [jwks |-> Jwks(JwksUrl(supabaseUrl), t), timestamp |-> t]
    ELSE cache

GetJWKS_TimestampNotSet(cache, supabaseUrl, t) ==
    IF ~Truthy(cache.jwks) \/ (t - cache.timestamp) > JWKS_CACHE_TTL
    THEN [jwks |-> Jwks(JwksUrl(supabaseUrl), t), timestamp |-> cache.timestamp]
    ELSE cache

GetJWKS_NeverExpires(cache, supabaseUrl, t) ==
    IF ~Truthy(cache.jwks)
    THEN [jwks |-> Jwks(JwksUrl(supabaseUrl), t), timestamp |-> t]
    ELSE cache

\* getJWKS: the cache entry after the call made at time t; the call returns
\* the entry's jwks
GetJWKS(cache, supabaseUrl, t) ==
    IF ~Truthy(cache.jwks) \/ (t - cache.timestamp) > JWKS_CACHE_TTL
    THEN [jwks |-> Jwks(JwksUrl(supabaseUrl), t), timestamp |-> t]
    ELSE cache


\* Mutant: with the key set out of reach the token's claims are taken unverified
JwtVerify_IgnoreFetchFailure(token, tok, jwks, issuer, audience, fetchOk) ==
    IF token # Str(<<"jwt">>) THEN Throw("Invalid Compact JWS")
    ELSE IF fetchOk /\ tok.signer # KeysOf(jwks) THEN Throw("signature verification failed")
    ELSE IF tok.iss # issuer THEN Throw("unexpected iss claim value")
    ELSE IF tok.aud # audience THEN Throw("unexpected aud claim value")
    ELSE IF tok.expired THEN Throw("exp claim timestamp check failed")
    ELSE Ok([sub |-> tok.sub])

\* jose's jwtVerify(token, jwks, {issuer, audience}) as verifyToken relies on
\* it: the payload, or the error thrown.  fetchOk: whether the key set could
\* be fetched from the endpoint.
JwtVerify(token, tok, jwks, issuer, audience, fetchOk) ==
    IF token # Str(<<"jwt">>) THEN Throw("Invalid Compact JWS")
    ELSE IF ~fetchOk THEN Throw("Expected 200 OK from the JSON Web Key Set HTTP response")
    ELSE IF tok.signer # KeysOf(jwks) THEN Throw("signature verification failed")
    ELSE IF tok.iss # issuer THEN Throw("unexpected iss claim value")
    ELSE IF tok.aud # audience THEN Throw("unexpected aud claim value")
    ELSE IF tok.expired THEN Throw("exp claim timestamp check failed")
    ELSE Ok([sub |-> tok.sub])


\* Mutant of verifyToken: the sub check left out
VerifyTokenResult_NoSubCheck(jv) ==
    IF IsOk(jv) THEN Ok(jv[2].sub) ELSE Throw(<<MsgJwtFailed, jv[2]>>)

\* verifyToken after the awaited jwtVerify: the sub check and the catch that
\* rewraps every error
VerifyTokenResult(jv) ==
    LET inner == IF ~IsOk(jv) THEN jv
                 ELSE IF ~Truthy(jv[2].sub) THEN Throw("Token missing sub claim")
                 ELSE Ok(jv[2].sub)
    IN IF IsOk(inner) THEN inner ELSE Throw(<<MsgJwtFailed, inner[2]>>)

\* The error kinds of the taxonomy, by message
MalformedCredential(res) ==
    ~IsOk(res) /\ res[2] \in {MsgMissingHeader, MsgInvalidFormat}

CredentialRejected(res) ==
    ~IsOk(res) /\ Len(res[2]) = 2 /\ res[2][1] = MsgJwtFailed

----------------------------------------------------------------------------
(* Requests *)

\* JavaScript objects: a function from field names to values
EmptyObj == [f \in {} |-> Undef]
Get(o, f) == IF f \in DOMAIN o THEN o[f] ELSE Undef

\* What c.req.json() gives: it throws on a body that is not JSON, and returns
\* the value otherwise (null, or an object)
BadJson == <<"bad">>
Json(v) == <<"json", v>>
Obj(fields) == <<"obj", fields>>
IsObj(v) == v[1] = "obj"

\* body.f in JavaScript: a TypeError on null, the field of an object
ThrowsOnAccess(v) == IsNullish(v)
Field(v, f) == IF IsObj(v) THEN Get(v[2], f) ELSE Undef

\* c.json(obj, status): JSON.stringify drops the fields that are undefined
Resp(status, obj) ==
    <<"resp", status, [f \in {g \in DOMAIN obj : obj[g] # Undef} |-> obj[f]]>>

Status(q) == q.resp[2]
RespBody(q) == q.resp[3]

Idle ==
    [pc |-> "idle", route |-> "", hdr |-> Undef, tok |-> NoTok, body |-> BadJson,
     token |-> Undef, jwks |-> Null, resolvedAt |-> 0, seenTimestamp |-> 0,
     usedJwks |-> Null, fetched |-> FALSE, verify |-> <<"none">>, userId |-> Undef,
     cacheBefore |-> [jwks |-> Null, timestamp |-> 0],
     parsed |-> Undef, reportId |-> Undef, grantReqs |-> <<>>,
     answers |-> <<>>, audio |-> Undef, mic |-> Undef, video |-> Undef,
     row |-> Undef, inserts |-> 0, dbAnswer |-> Undef, failed |-> <<>>, resp |-> Undef]

Done(q, resp) == [q EXCEPT !.pc = "done", !.resp = resp]

\* A failure met while handling q: remembered, and answered with resp
Fail(q, what, resp) == Done([q EXCEPT !.failed = Append(@, what)], resp)

\* app.onError (index.ts:30)
OnError(q, message) ==
    Fail(q, "exception",
         Resp(500, [error |-> Str(<<"Internal server error">>), message |-> Str(<<message>>)]))


\* Mutant: the key set resolved before the header is looked at
AuthStart_ResolveFirst(q, cache, e, t) ==
    IF ~Truthy(e.SUPABASE_URL)
    THEN [req |-> Fail(q, "config",
                       Resp(500, [error |-> Str(<<"Server configuration error: Missing SUPABASE_URL">>)])),
          cache |-> cache]
    ELSE LET hc == HeaderCheck(q.hdr)
             after == GetJWKS(cache, e.SUPABASE_URL, t)
         IN IF ~IsOk(hc)
            THEN [req |-> Fail([q EXCEPT !.verify = hc], "header",
                               Resp(401, [error |-> Str(hc[2])])),
                  cache |-> after]
            ELSE [req |-> [q EXCEPT !.pc = "jwtVerify", !.token = hc[2],
                                    !.jwks = after.jwks, !.resolvedAt = t,
                                    !.seenTimestamp = after.timestamp],
                  cache |-> after]

\* authMiddleware up to its await of jwtVerify, for the request q received at
\* time t: the request and the cache entry afterwards
AuthStart(q, cache, e, t) ==
    IF ~Truthy(e.SUPABASE_URL)
    THEN [req |-> Fail(q, "config",
                       Resp(500, [error |-> Str(<<"Server configuration error: Missing SUPABASE_URL">>)])),
          cache |-> cache]
    ELSE LET hc == HeaderCheck(q.hdr)
         IN IF ~IsOk(hc)
            THEN [req |-> Fail([q EXCEPT !.verify = hc], "header",
                               Resp(401, [error |-> Str(hc[2])])),
                  cache |-> cache]
            ELSE LET after == GetJWKS(cache, e.SUPABASE_URL, t)
                 IN [req |-> [q EXCEPT !.pc = "jwtVerify", !.token = hc[2],
                                        !.jwks = after.jwks, !.resolvedAt = t,
                                        !.seenTimestamp = after.timestamp],
                     cache |-> after]


\* Mutant: the cache entry read again when jwtVerify resumes
VerifyingJwks_RereadCache(q, cache) == cache.jwks

\* The key set the awaited jwtVerify of q verifies against: the one
\* verifyToken got from getJWKS (the const jwks of auth.ts:53)
VerifyingJwks(q, cache) == q.jwks


\* Mutant: a failed verification empties the cache entry
CacheAfterVerify_EvictOnFailure(cache, res) ==
    IF IsOk(res) THEN cache ELSE [jwks |-> Null, timestamp |-> 0]

\* The cache entry after the awaited jwtVerify returned res: verifyToken's
\* try and catch (auth.ts:52-73) hold no assignment to jwksCache
CacheAfterVerify(cache, res) == cache

\* authMiddleware's catch (auth.ts:95): any error of verifyToken is a 401
AuthRejected(q, res) ==
    Fail([q EXCEPT !.verify = res], "verify", Resp(401, [error |-> Str(res[2])]))

----------------------------------------------------------------------------
(* routes/reports.ts *)

MsgUserIdMissing == Str(<<"User ID not found in token">>)
MsgConfig == Str(<<"Server configuration error">>)

\* Storage: the { data, error } a createSignedUploadUrl(path) call resolves to
BUCKET_AUDIO == "reports-audio"
BUCKET_VIDEO == "reports-video"

SignedUrl(bucket, path) == Str(<<"https://storage/", bucket, "/">> \o path[2] \o <<"?token=">>)
GrantToken(path) == Str(<<"token:">> \o path[2])

StorageError == <<"error">>
StorageData(signedUrl, token) == <<"data", [signedUrl |-> signedUrl, token |-> token]>>

StorageAnswers(bucket, path) ==
    {StorageError,
     StorageData(Undef, Undef),
     StorageData(SignedUrl(bucket, path), GrantToken(path)),
     StorageData(SignedUrl(bucket, path), Undef)}

\* audioError || !audioSigned?.signedUrl
GrantFailed(ans) == ans[1] = "error" \/ ~Truthy(ans[2].signedUrl)

AudioPath(reportId) == Str(reportId[2] \o <<"/system_audio.wav">>)

\* Mutant: the microphone recording uploaded to the path of the system audio
MicrophonePath_SameAsAudio(reportId) == Str(reportId[2] \o <<"/system_audio.wav">>)

MicrophonePath(reportId) == Str(reportId[2] \o <<"/microphone.wav">>)
VideoPath(reportId) == Str(reportId[2] \o <<"/screen_recording.avi">>)

\* supabase.storage.from(bucket).createSignedUploadUrl(path) is called
RequestGrant(q, stage, bucket, path) ==
    [q EXCEPT !.pc = stage, !.grantReqs = Append(@, <<bucket, path>>)]


\* Mutant: the handlers do not check the configuration
HandlerPrecheck_NoConfigCheck(q, e) ==
    IF ~Truthy(q.userId) THEN Resp(401, [error |-> MsgUserIdMissing])
    ELSE Undef

\* The checks both handlers start with (reports.ts:22-31, 104-113): the
\* response that ends the request, or Undef to go on
HandlerPrecheck(q, e) ==
    IF ~Truthy(q.userId) THEN Resp(401, [error |-> MsgUserIdMissing])
    ELSE IF ~Truthy(e.SUPABASE_URL) \/ ~Truthy(e.SUPABASE_SERVICE_ROLE_KEY)
    THEN Resp(500, [error |-> MsgConfig])
    ELSE Undef


\* Mutant: the report id derived from the caller's subject
InitStart_IdFromSubject(q, e, id) ==
    LET pre == HandlerPrecheck(q, e)
        own == Str(<<"report-of-">> \o q.userId[2])
    IN IF pre # Undef THEN Fail(q, "precheck", pre)
       ELSE LET parsed == IF q.body = BadJson THEN Obj(EmptyObj) ELSE q.body[2]
            IN RequestGrant([q EXCEPT !.parsed = parsed, !.reportId = own],
                            "audio", BUCKET_AUDIO, AudioPath(own))

\* Mutant: init refuses a body that is not JSON as complete does
InitStart_StrictJson(q, e, id) ==
    LET pre == HandlerPrecheck(q, e)
    IN IF pre # Undef THEN Fail(q, "precheck", pre)
       ELSE IF q.body = BadJson
       THEN Fail(q, "json", Resp(400, [error |-> Str(<<"Invalid JSON body">>)]))
       ELSE RequestGrant([q EXCEPT !.parsed = q.body[2], !.reportId = id],
                         "audio", BUCKET_AUDIO, AudioPath(id))

\* POST /reports/init up to its first createSignedUploadUrl (reports.ts:21-46);
\* id is what crypto.randomUUID() returns
InitStart(q, e, id) ==
    LET pre == HandlerPrecheck(q, e)
    IN IF pre # Undef THEN Fail(q, "precheck", pre)
       ELSE LET parsed == IF q.body = BadJson THEN Obj(EmptyObj) ELSE q.body[2]
            IN RequestGrant([q EXCEPT !.parsed = parsed, !.reportId = id],
                            "audio", BUCKET_AUDIO, AudioPath(id))

\* The 200 response of init (reports.ts:85-96)
InitResponse(q) ==
    LET micAsked == q.mic # Undef
        vidAsked == q.video # Undef
    IN Resp(200,
         [report_id |-> q.reportId,
          audio_upload_url |-> q.audio[2].signedUrl,
          audio_upload_token |-> q.audio[2].token,
          audio_path |-> AudioPath(q.reportId),
          microphone_upload_url |-> IF micAsked THEN q.mic[2].signedUrl ELSE Null,
          microphone_upload_token |-> IF micAsked THEN CoalesceNull(q.mic[2].token) ELSE Null,
          microphone_path |-> IF micAsked THEN MicrophonePath(q.reportId) ELSE Null,
          video_upload_url |-> IF vidAsked THEN q.video[2].signedUrl ELSE Null,
          video_upload_token |-> IF vidAsked THEN CoalesceNull(q.video[2].token) ELSE Null,
          video_path |-> IF vidAsked THEN VideoPath(q.reportId) ELSE Null])

GrantFailure(q, slot) ==
    Fail(q, "grant",
         Resp(500, [error |-> Str(<<"Failed to create ", slot, " upload URL">>)]))


\* Mutant: the video slot requested whenever the flag is present
InitVideoStep_IfPresent(q) ==
    IF Field(q.parsed, "has_video") # Undef
    THEN RequestGrant(q, "video", BUCKET_VIDEO, VideoPath(q.reportId))
    ELSE Done(q, InitResponse(q))

\* init from where the video slot is decided (reports.ts:69-96)
InitVideoStep(q) ==
    IF Truthy(Field(q.parsed, "has_video"))
    THEN RequestGrant(q, "video", BUCKET_VIDEO, VideoPath(q.reportId))
    ELSE Done(q, InitResponse(q))


\* Mutant: the microphone slot requested whenever the flag is present
InitMicrophoneStep_IfPresent(q) ==
    IF ThrowsOnAccess(q.parsed)
    THEN OnError(q, "Cannot read properties of null (reading 'has_microphone')")
    ELSE IF Field(q.parsed, "has_microphone") # Undef
    THEN RequestGrant(q, "mic", BUCKET_AUDIO, MicrophonePath(q.reportId))
    ELSE InitVideoStep(q)

\* init from where the microphone slot is decided (reports.ts:53-68)
InitMicrophoneStep(q) ==
    IF ThrowsOnAccess(q.parsed)
    THEN OnError(q, "Cannot read properties of null (reading 'has_microphone')")
    ELSE IF Truthy(Field(q.parsed, "has_microphone"))
    THEN RequestGrant(q, "mic", BUCKET_AUDIO, MicrophonePath(q.reportId))
    ELSE InitVideoStep(q)


\* Mutant: a failed audio grant is requested once more
InitAfterAudio_RetryOnce(q, ans) ==
    IF GrantFailed(ans)
    THEN IF Len(q.grantReqs) < 2
         THEN RequestGrant(q, "audio", BUCKET_AUDIO, AudioPath(q.reportId))
         ELSE GrantFailure(q, "audio")
    ELSE InitMicrophoneStep([q EXCEPT !.audio = ans])

\* Mutant: a failed audio grant is requested again until it is issued
InitAfterAudio_RetryUntilGranted(q, ans) ==
    IF GrantFailed(ans) THEN [q EXCEPT !.answers = IF Len(@) > 1 THEN <<>> ELSE @]
    ELSE InitMicrophoneStep([q EXCEPT !.audio = ans])

\* init when the audio grant call returns ans (reports.ts:44-51)
InitAfterAudio(q, ans) ==
    IF GrantFailed(ans) THEN GrantFailure(q, "audio")
    ELSE InitMicrophoneStep([q EXCEPT !.audio = ans])


\* Mutant: a failed microphone grant is skipped and the rest returned
InitAfterMicrophone_SkipFailed(q, ans) ==
    IF GrantFailed(ans) THEN InitVideoStep(q)
    ELSE InitVideoStep([q EXCEPT !.mic = ans])

\* Mutant: the video grant requested although the microphone grant failed,
\* the failure answered afterwards
InitAfterMicrophone_VideoAfterFailure(q, ans) ==
    IF GrantFailed(ans)
    THEN IF Truthy(Field(q.parsed, "has_video"))
         THEN RequestGrant(q, "video", BUCKET_VIDEO, VideoPath(q.reportId))
         ELSE GrantFailure(q, "microphone")
    ELSE InitVideoStep([q EXCEPT !.mic = ans])

\* init when the microphone grant call returns ans (reports.ts:59-67)
InitAfterMicrophone(q, ans) ==
    IF GrantFailed(ans) THEN GrantFailure(q, "microphone")
    ELSE InitVideoStep([q EXCEPT !.mic = ans])

\* init when the video grant call returns ans (reports.ts:75-82)
InitAfterVideo(q, ans) ==
    IF GrantFailed(ans) THEN GrantFailure(q, "video")
    ELSE LET q2 == [q EXCEPT !.video = ans] IN Done(q2, InitResponse(q2))

\* [a, b].filter(Boolean).join(',') over strings
RECURSIVE JoinComma(_)
JoinComma(strs) ==
    IF strs = <<>> THEN <<>>
    ELSE IF Len(strs) = 1 THEN strs[1][2]
    ELSE strs[1][2] \o <<",">> \o JoinComma(Tail(strs))

FilterBoolean(vals) == SelectSeq(vals, Truthy)


\* Mutant: the video path joined in with the audio paths
AudioPaths_WithVideo(body) ==
    Str(JoinComma(FilterBoolean(<<Field(body, "audio_path"), Field(body, "microphone_path"),
                                  Field(body, "video_path")>>)))

\* audioPaths (reports.ts:128)
AudioPaths(body) ==
    Str(JoinComma(FilterBoolean(<<Field(body, "audio_path"), Field(body, "microphone_path")>>)))


\* Mutant: the owner taken from the body when the body names one
ReportData_BodyUser(body, userId) ==
    [id |-> Field(body, "report_id"),
     user_id |-> IF Truthy(Field(body, "user_id")) THEN Field(body, "user_id") ELSE userId,
     game_name |-> OrNull(Field(body, "game_name")),
     offender_name |-> OrNull(Field(body, "offender_name")),
     description |-> OrNull(Field(body, "description")),
     targeted |-> DefinedOrNull(Field(body, "targeted")),
     desired_action |-> OrNull(Field(body, "desired_action")),
     recording_start_utc |-> OrNull(Field(body, "recording_start_utc")),
     flag_utc |-> OrNull(Field(body, "flag_utc")),
     clip_start_offset_sec |-> DefinedOrNull(Field(body, "clip_start_offset_sec")),
     clip_end_offset_sec |-> DefinedOrNull(Field(body, "clip_end_offset_sec")),
     audio_path |-> OrNull(AudioPaths(body)),
     video_path |-> OrNull(Field(body, "video_path")),
     forwarded_to_modulate |-> Bool(FALSE)]


\* Mutant: the processing flag taken from the body when the body sets it
ReportData_BodyFlag(body, userId) ==
    [id |-> Field(body, "report_id"),
     user_id |-> userId,
     game_name |-> OrNull(Field(body, "game_name")),
     offender_name |-> OrNull(Field(body, "offender_name")),
     description |-> OrNull(Field(body, "description")),
     targeted |-> DefinedOrNull(Field(body, "targeted")),
     desired_action |-> OrNull(Field(body, "desired_action")),
     recording_start_utc |-> OrNull(Field(body, "recording_start_utc")),
     flag_utc |-> OrNull(Field(body, "flag_utc")),
     clip_start_offset_sec |-> DefinedOrNull(Field(body, "clip_start_offset_sec")),
     clip_end_offset_sec |-> DefinedOrNull(Field(body, "clip_end_offset_sec")),
     audio_path |-> OrNull(AudioPaths(body)),
     video_path |-> OrNull(Field(body, "video_path")),
     forwarded_to_modulate |->
         IF Field(body, "forwarded_to_modulate") # Undef
         THEN Field(body, "forwarded_to_modulate") ELSE Bool(FALSE)]

\* Mutant: every optional field taken with `|| null`
ReportData_FalsyToNull(body, userId) ==
    [id |-> Field(body, "report_id"),
     user_id |-> userId,
     game_name |-> OrNull(Field(body, "game_name")),
     offender_name |-> OrNull(Field(body, "offender_name")),
     description |-> OrNull(Field(body, "description")),
     targeted |-> OrNull(Field(body, "targeted")),
     desired_action |-> OrNull(Field(body, "desired_action")),
     recording_start_utc |-> OrNull(Field(body, "recording_start_utc")),
     flag_utc |-> OrNull(Field(body, "flag_utc")),
     clip_start_offset_sec |-> OrNull(Field(body, "clip_start_offset_sec")),
     clip_end_offset_sec |-> OrNull(Field(body, "clip_end_offset_sec")),
     audio_path |-> OrNull(AudioPaths(body)),
     video_path |-> OrNull(Field(body, "video_path")),
     forwarded_to_modulate |-> Bool(FALSE)]

\* reportData (reports.ts:130-145)
ReportData(body, userId) ==
    [id |-> Field(body, "report_id"),
     user_id |-> userId,
     game_name |-> OrNull(Field(body, "game_name")),
     offender_name |-> OrNull(Field(body, "offender_name")),
     description |-> OrNull(Field(body, "description")),
     targeted |-> DefinedOrNull(Field(body, "targeted")),
     desired_action |-> OrNull(Field(body, "desired_action")),
     recording_start_utc |-> OrNull(Field(body, "recording_start_utc")),
     flag_utc |-> OrNull(Field(body, "flag_utc")),
     clip_start_offset_sec |-> DefinedOrNull(Field(body, "clip_start_offset_sec")),
     clip_end_offset_sec |-> DefinedOrNull(Field(body, "clip_end_offset_sec")),
     audio_path |-> OrNull(AudioPaths(body)),
     video_path |-> OrNull(Field(body, "video_path")),
     forwarded_to_modulate |-> Bool(FALSE)]


\* Mutant: complete refuses a report_id that no init of this process generated
CompleteStart_KnownIdsOnly(q, e) ==
    LET pre == HandlerPrecheck(q, e)
    IN IF pre # Undef THEN Fail(q, "precheck", pre)
       ELSE IF q.body = BadJson
       THEN Fail(q, "json", Resp(400, [error |-> Str(<<"Invalid JSON body">>)]))
       ELSE LET body == q.body[2]
            IN IF ThrowsOnAccess(body)
               THEN OnError(q, "Cannot read properties of null (reading 'report_id')")
               ELSE IF ~Truthy(Field(body, "report_id")) \/ Field(body, "report_id") \notin uuids
               THEN Fail([q EXCEPT !.parsed = body], "report_id",
                         Resp(400, [error |-> Str(<<"Missing report_id">>)]))
               ELSE [q EXCEPT !.pc = "insert", !.parsed = body,
                              !.row = <<"row", ReportData(body, q.userId)>>,
                              !.inserts = @ + 1]

\* Mutant: complete takes a body that is not JSON for {} as init does, and
\* goes on to its report_id check
CompleteStart_JsonAsEmpty(q, e) ==
    LET pre == HandlerPrecheck(q, e)
    IN IF pre # Undef THEN Fail(q, "precheck", pre)
       ELSE LET body == IF q.body = BadJson THEN Obj(EmptyObj) ELSE q.body[2]
            IN IF ThrowsOnAccess(body)
               THEN OnError(q, "Cannot read properties of null (reading 'report_id')")
               ELSE IF ~Truthy(Field(body, "report_id"))
               THEN Fail([q EXCEPT !.parsed = body], "report_id",
                         Resp(400, [error |-> Str(<<"Missing report_id">>)]))
               ELSE [q EXCEPT !.pc = "insert", !.parsed = body,
                              !.row = <<"row", ReportData(body, q.userId)>>,
                              !.inserts = @ + 1]

\* Mutant: complete refuses an audio_path that is not the one init issues for
\* the report_id
CompleteStart_PathsChecked(q, e) ==
    LET pre == HandlerPrecheck(q, e)
    IN IF pre # Undef THEN Fail(q, "precheck", pre)
       ELSE IF q.body = BadJson
       THEN Fail(q, "json", Resp(400, [error |-> Str(<<"Invalid JSON body">>)]))
       ELSE LET body == q.body[2]
            IN IF ThrowsOnAccess(body)
               THEN OnError(q, "Cannot read properties of null (reading 'report_id')")
               ELSE IF ~Truthy(Field(body, "report_id"))
               THEN Fail([q EXCEPT !.parsed = body], "report_id",
                         Resp(400, [error |-> Str(<<"Missing report_id">>)]))
               ELSE IF Field(body, "audio_path") # AudioPath(Field(body, "report_id"))
               THEN Fail([q EXCEPT !.parsed = body], "paths",
                         Resp(400, [error |-> Str(<<"Unknown audio_path">>)]))
               ELSE [q EXCEPT !.pc = "insert", !.parsed = body,
                              !.row = <<"row", ReportData(body, q.userId)>>,
                              !.inserts = @ + 1]

\* Mutant: complete refuses a report_id that init generated for another
\* subject
CompleteStart_OwnIdsOnly(q, e) ==
    LET pre == HandlerPrecheck(q, e)
    IN IF pre # Undef THEN Fail(q, "precheck", pre)
       ELSE IF q.body = BadJson
       THEN Fail(q, "json", Resp(400, [error |-> Str(<<"Invalid JSON body">>)]))
       ELSE LET body == q.body[2]
            IN IF ThrowsOnAccess(body)
               THEN OnError(q, "Cannot read properties of null (reading 'report_id')")
               ELSE IF ~Truthy(Field(body, "report_id"))
               THEN Fail([q EXCEPT !.parsed = body], "report_id",
                         Resp(400, [error |-> Str(<<"Missing report_id">>)]))
               ELSE IF \E r \in DOMAIN req :
                          /\ req[r].route = "init"
                          /\ req[r].reportId = Field(body, "report_id")
                          /\ req[r].userId # q.userId
               THEN Fail([q EXCEPT !.parsed = body], "owner",
                         Resp(403, [error |-> Str(<<"Not your report">>)]))
               ELSE [q EXCEPT !.pc = "insert", !.parsed = body,
                              !.row = <<"row", ReportData(body, q.userId)>>,
                              !.inserts = @ + 1]

\* POST /reports/complete up to its insert (reports.ts:103-149)
CompleteStart(q, e) ==
    LET pre == HandlerPrecheck(q, e)
    IN IF pre # Undef THEN Fail(q, "precheck", pre)
       ELSE IF q.body = BadJson
       THEN Fail(q, "json", Resp(400, [error |-> Str(<<"Invalid JSON body">>)]))
       ELSE LET body == q.body[2]
            IN IF ThrowsOnAccess(body)
               THEN OnError(q, "Cannot read properties of null (reading 'report_id')")
               ELSE IF ~Truthy(Field(body, "report_id"))
               THEN Fail([q EXCEPT !.parsed = body], "report_id",
                         Resp(400, [error |-> Str(<<"Missing report_id">>)]))
               ELSE [q EXCEPT !.pc = "insert", !.parsed = body,
                              !.row = <<"row", ReportData(body, q.userId)>>,
                              !.inserts = @ + 1]

\* The database's answer to insert(row): the row is stored unless the table is
\* unavailable or holds a row with that id (primary key)
DbOk == <<"ok">>
DbError(message) == <<"error", message>>

Insert(table, row, available) ==
    IF ~available THEN [table |-> table, answer |-> DbError("connection failure")]
    ELSE IF \E old \in table : old.id = row.id
    THEN [table |-> table,
          answer |-> DbError("duplicate key value violates unique constraint")]
    ELSE [table |-> table \cup {row}, answer |-> DbOk]


\* Mutant: the answer of insert is not looked at
CompleteAfterInsert_Always201(q, answer) ==
    Done(q, Resp(201, [ok |-> Bool(TRUE), report_id |-> Field(q.parsed, "report_id")]))

\* Mutant: an insert rejected for a duplicate key is answered as a success
CompleteAfterInsert_DuplicateOk(q, answer) ==
    IF answer # DbOk /\ answer # DbError("duplicate key value violates unique constraint")
    THEN Fail(q, "insert",
              Resp(500, [error |-> Str(<<"Failed to create report">>),
                         details |-> Str(<<answer[2]>>)]))
    ELSE Done(q, Resp(201, [ok |-> Bool(TRUE), report_id |-> Field(q.parsed, "report_id")]))

\* complete when insert returns (reports.ts:151-162)
CompleteAfterInsert(q, answer) ==
    IF answer # DbOk
    THEN Fail(q, "insert",
              Resp(500, [error |-> Str(<<"Failed to create report">>),
                         details |-> Str(<<answer[2]>>)]))
    ELSE Done(q, Resp(201, [ok |-> Bool(TRUE), report_id |-> Field(q.parsed, "report_id")]))


\* Mutant: init stores a provisional row when it answers 200
TableAfterInit_Provisional(table, q) ==
    IF q.pc = "done" /\ q.resp[2] = 200
    THEN table \cup {ReportData(Obj([report_id |-> q.reportId]), q.userId)}
    ELSE table

\* The reports table after a step of init handling request q: the init handler
\* holds no call of supabase.from('reports') (reports.ts:21-97)
TableAfterInit(table, q) == table

\* The report_id values returned so far, after a step that leaves the init
\* request q where it is: the 200 response carries report_id (reports.ts:85-86)
ReturnedAfter(ids, q) ==
    IF q.pc = "done" /\ q.resp[2] = 200 THEN ids \cup {q.resp[3].report_id} ELSE ids


\* Mutant: /health put behind authMiddleware
HealthStart_Protected(q, cache, e, t) == AuthStart(q, cache, e, t)

\* GET /health (index.ts:16-19): the request and the cache entry afterwards
HealthStart(q, cache, e, t) ==
    [req |-> Done(q, Resp(200, [ok |-> Bool(TRUE)])), cache |-> cache]

\* app.notFound (index.ts:25-27), the answer to a request no route matches:
\* the request and the cache entry afterwards
NotFoundStart(q, cache, e, t) ==
    [req |-> Done(q, Resp(404, [error |-> Str(<<"Not found">>)])), cache |-> cache]

\* POST /reports (legacy, reports.ts:168)
LegacyHandler(q) ==
    Done(q, Resp(400, [error |-> Str(<<"Use /reports/init and /reports/complete">>)]))

\* await next() of authMiddleware: the route's handler up to its first awaited
\* network call
Handler(q, e, id) ==
    CASE q.route = "init" -> InitStart(q, e, id)
      [] q.route = "complete" -> CompleteStart(q, e)
      [] OTHER -> LegacyHandler(q)


\* Mutant: complete goes on to its handler whatever verifyToken answered
AuthContinue_FailOpen(q, res, e, id) ==
    IF IsOk(res) THEN Handler([q EXCEPT !.verify = res, !.userId = res[2]], e, id)
    ELSE IF q.route = "complete"
    THEN Handler([q EXCEPT !.verify = res, !.userId = Str(<<"unverified">>)], e, id)
    ELSE AuthRejected(q, res)

\* authMiddleware when verifyToken returns res (auth.ts:87-98)
AuthContinue(q, res, e, id) ==
    IF IsOk(res)
    THEN Handler([q EXCEPT !.verify = res, !.userId = res[2]], e, id)
    ELSE AuthRejected(q, res)

----------------------------------------------------------------------------
(* The state machine *)

UuidNames == <<"uuid-1", "uuid-2", "uuid-3", "uuid-4">>
UUIDS == {Str(<<UuidNames[i]>>) : i \in 1..MaxReports}

Ticks == ((now - StartNow) \div JWKS_CACHE_TTL) + ((now - StartNow) % JWKS_CACHE_TTL)

FullEnv == [SUPABASE_URL |-> Str(<<URL1>>), SUPABASE_SERVICE_ROLE_KEY |-> Str(<<"service-role-key">>)]
NoUrlEnv == [FullEnv EXCEPT !.SUPABASE_URL = Undef]
NoKeyEnv == [FullEnv EXCEPT !.SUPABASE_SERVICE_ROLE_KEY = Undef]

InitWith(envs, slots) ==
    /\ jwksCache = [jwks |-> Null, timestamp |-> 0]
    /\ now = StartNow
    /\ env \in envs
    /\ req = [r \in slots |-> Idle]
    /\ reports = {}
    /\ uuids = {}
    /\ created = {}
    /\ returned = {}

\* A request arrives in slot r and runs up to its first await
Receive(r, input) ==
    /\ req[r].pc = "idle"
    /\ LET q == [Idle EXCEPT !.route = input.route, !.hdr = input.hdr, !.tok = input.tok,
                             !.body = input.body, !.cacheBefore = jwksCache]
           start == AuthStart(q, jwksCache, env, now)
       IN /\ req' = [req EXCEPT ![r] = start.req]
          /\ jwksCache' = start.cache
          /\ created' = IF start.cache # jwksCache THEN created \cup {now} ELSE created
    /\ UNCHANGED <<now, env, reports, uuids, returned>>

\* A GET /health request arrives in slot r and is answered
Health(r, input) ==
    /\ req[r].pc = "idle"
    /\ LET q == [Idle EXCEPT !.route = "health", !.hdr = input.hdr, !.tok = input.tok,
                             !.cacheBefore = jwksCache]
           start == HealthStart(q, jwksCache, env, now)
       IN /\ req' = [req EXCEPT ![r] = start.req]
          /\ jwksCache' = start.cache
          /\ created' = IF start.cache # jwksCache THEN created \cup {now} ELSE created
    /\ UNCHANGED <<now, env, reports, uuids, returned>>

\* A request that no route matches arrives in slot r and is answered
NotFound(r, input) ==
    /\ req[r].pc = "idle"
    /\ LET q == [Idle EXCEPT !.route = "unknown", !.hdr = input.hdr, !.tok = input.tok,
                             !.body = input.body, !.cacheBefore = jwksCache]
           start == NotFoundStart(q, jwksCache, env, now)
       IN /\ req' = [req EXCEPT ![r] = start.req]
          /\ jwksCache' = start.cache
          /\ created' = IF start.cache # jwksCache THEN created \cup {now} ELSE created
    /\ UNCHANGED <<now, env, reports, uuids, returned>>

\* The bindings handed to the next request name another issuer location
\* (c.env is an argument of every request, supabaseUrl one of every
\* verifyToken call); no request is being handled
Bind(url) ==
    /\ \A r \in DOMAIN req : req[r].pc = "idle"
    /\ env.SUPABASE_URL # Str(<<url>>)
    /\ env' = [env EXCEPT !.SUPABASE_URL = Str(<<url>>)]
    /\ UNCHANGED <<jwksCache, now, req, reports, uuids, created, returned>>

\* Whether the handler run by AuthContinue calls crypto.randomUUID()
CallsRandomUUID(q, res) ==
    /\ q.route = "init"
    /\ IsOk(res)
    /\ HandlerPrecheck([q EXCEPT !.userId = res[2]], env) = Undef

\* The awaited jwtVerify of slot r returns; the handler runs up to its first
\* awaited network call
JwtVerifyReturn(r, fetchOk) ==
    /\ req[r].pc = "jwtVerify"
    /\ LET q == req[r]
           jwks == VerifyingJwks(q, jwksCache)
           res == VerifyTokenResult(
                      JwtVerify(q.token, q.tok, jwks, ExpectedIssuer(env.SUPABASE_URL),
                                "authenticated", fetchOk))
           q1 == [q EXCEPT !.usedJwks = jwks, !.fetched = fetchOk]
       IN \E id \in IF CallsRandomUUID(q, res) THEN UUIDS \ uuids ELSE {Undef} :
             /\ req' = [req EXCEPT ![r] = AuthContinue(q1, res, env, id)]
             /\ uuids' = IF id = Undef THEN uuids ELSE uuids \cup {id}
             /\ jwksCache' = CacheAfterVerify(jwksCache, res)
    /\ UNCHANGED <<now, env, reports, created, returned>>

AudioReturn(r) ==
    /\ req[r].pc = "audio"
    /\ \E ans \in StorageAnswers(BUCKET_AUDIO, AudioPath(req[r].reportId)) :
          /\ req' = [req EXCEPT ![r] = InitAfterAudio([req[r] EXCEPT !.answers = Append(@, ans)], ans)]
          /\ reports' = TableAfterInit(reports, req'[r])
          /\ returned' = ReturnedAfter(returned, req'[r])
    /\ UNCHANGED <<jwksCache, now, env, uuids, created>>

MicrophoneReturn(r) ==
    /\ req[r].pc = "mic"
    /\ \E ans \in StorageAnswers(BUCKET_AUDIO, MicrophonePath(req[r].reportId)) :
          /\ req' = [req EXCEPT ![r] = InitAfterMicrophone([req[r] EXCEPT !.answers = Append(@, ans)], ans)]
          /\ reports' = TableAfterInit(reports, req'[r])
          /\ returned' = ReturnedAfter(returned, req'[r])
    /\ UNCHANGED <<jwksCache, now, env, uuids, created>>

VideoReturn(r) ==
    /\ req[r].pc = "video"
    /\ \E ans \in StorageAnswers(BUCKET_VIDEO, VideoPath(req[r].reportId)) :
          /\ req' = [req EXCEPT ![r] = InitAfterVideo([req[r] EXCEPT !.answers = Append(@, ans)], ans)]
          /\ reports' = TableAfterInit(reports, req'[r])
          /\ returned' = ReturnedAfter(returned, req'[r])
    /\ UNCHANGED <<jwksCache, now, env, uuids, created>>

InsertReturn(r, available) ==
    /\ req[r].pc = "insert"
    /\ LET res == Insert(reports, req[r].row[2], available)
       IN /\ reports' = res.table
          /\ req' = [req EXCEPT ![r] =
                        CompleteAfterInsert([req[r] EXCEPT !.dbAnswer = res.answer], res.answer)]
    /\ UNCHANGED <<jwksCache, now, env, uuids, created, returned>>

\* The response of slot r has been sent; the slot takes the next request
Forget(r) ==
    /\ req[r].pc = "done"
    /\ req' = [req EXCEPT ![r] = Idle]
    /\ UNCHANGED <<jwksCache, now, env, reports, uuids, created, returned>>

\* Time passes
Tick(d) ==
    /\ Ticks < MaxTicks
    /\ now' = now + d
    /\ UNCHANGED <<jwksCache, env, req, reports, uuids, created, returned>>

TickSteps == {1, JWKS_CACHE_TTL}

----------------------------------------------------------------------------
(* Inputs *)

Input(route, hdr, tok, body) == [route |-> route, hdr |-> hdr, tok |-> tok, body |-> body]

GoodHeader == Str(<<"Bearer", SP, "jwt">>)
HeaderAtoms == {"Bearer", "bearer", "jwt", SP, TAB}
AllHeaders == {Undef} \cup {Str(s) : s \in SeqsUpTo(HeaderAtoms, MaxHeaderLen)}

Subjects == {Undef, Str(<<>>), UserA, UserB}

AllTokens ==
    [signer : {JwksUrl(Str(<<URL1>>)), <<"attacker">>},
     iss : {ExpectedIssuer(Str(<<URL1>>)), ExpectedIssuer(Str(<<URL2>>)), <<URL1>>},
     aud : {"authenticated", "anon"},
     expired : BOOLEAN,
     sub : Subjects]

ForgedToken(sub) == [TokenOf(URL1, sub) EXCEPT !.signer = <<"attacker">>]

----------------------------------------------------------------------------
(* Token Verifier alone: one caller at a time, every header shape and every  *)
(* token, through the route whose handler does nothing but authenticate      *)

VerifyInputs ==
    {Input("legacy", h, TokenOf(URL1, UserA), BadJson) : h \in AllHeaders}
    \cup {Input("legacy", GoodHeader, t, BadJson) : t \in AllTokens}

InitVerify == InitWith({FullEnv}, {1})

NextVerify ==
    \/ \E input \in VerifyInputs : Receive(1, input)
    \/ \E fetchOk \in BOOLEAN : JwtVerifyReturn(1, fetchOk)
    \/ Forget(1)

SpecVerify == InitVerify /\ [][NextVerify]_vars

----------------------------------------------------------------------------
(* The key-set cache: concurrent callers and the clock *)

CacheInputs ==
    {Input("legacy", GoodHeader, t, BadJson) : t \in {TokenOf(URL1, UserA), ForgedToken(UserA)}}

InitCache == InitWith({FullEnv}, Slots)

NextCache ==
    \/ \E r \in Slots : \E input \in CacheInputs : Receive(r, input)
    \/ \E r \in Slots : \E fetchOk \in BOOLEAN : JwtVerifyReturn(r, fetchOk)
    \/ \E r \in Slots : Forget(r)
    \/ \E d \in TickSteps : Tick(d)

SpecCache == InitCache /\ [][NextCache]_vars

----------------------------------------------------------------------------
(* The report protocol: init and complete requests, handled concurrently *)

\* An object literal: the fields given as Undef are absent
MkObj(fields) == Obj([f \in {g \in DOMAIN fields : fields[g] # Undef} |-> fields[f]])

ClientId == Str(<<"client-made-id">>)

InitBodies ==
    {BadJson, Json(Null)}
    \cup {Json(MkObj([has_microphone |-> m, has_video |-> v])) :
            m \in {Undef, Bool(FALSE), Bool(TRUE)}, v \in {Bool(FALSE), Bool(TRUE)}}

CompleteBodies ==
    {BadJson, Json(Null)}
    \cup {Json(MkObj([report_id |-> id, user_id |-> u])) :
            id \in {Undef, Null, Str(<<>>), ClientId} \cup UUIDS, u \in {Undef, UserA, UserB}}

ValidAuth == {<<GoodHeader, TokenOf(URL1, UserA)>>, <<GoodHeader, TokenOf(URL1, UserB)>>}
InvalidAuth == {<<GoodHeader, ForgedToken(UserA)>>, <<Undef, NoTok>>}

ReportInputs ==
    {Input("init", a[1], a[2], b) : a \in ValidAuth \cup InvalidAuth, b \in InitBodies}
    \cup {Input("complete", a[1], a[2], b) : a \in ValidAuth \cup InvalidAuth, b \in CompleteBodies}

\* One request at a time, through every input
Init == InitWith({FullEnv, NoUrlEnv, NoKeyEnv}, {1})

Next ==
    \/ \E input \in ReportInputs : Receive(1, input)
    \/ \E fetchOk \in BOOLEAN : JwtVerifyReturn(1, fetchOk)
    \/ AudioReturn(1)
    \/ MicrophoneReturn(1)
    \/ VideoReturn(1)
    \/ \E available \in BOOLEAN : InsertReturn(1, available)
    \/ Forget(1)

Spec == Init /\ [][Next]_vars

\* Two complete requests, handled concurrently
FinalizeInputs ==
    {Input("complete", GoodHeader, TokenOf(URL1, sub), Json(MkObj([report_id |-> id, user_id |-> u]))) :
        sub \in {UserA, UserB}, id \in UUIDS, u \in {Undef, UserA, UserB}}

InitFinalize == InitWith({FullEnv}, Slots)

NextFinalize ==
    \/ \E r \in Slots : \E input \in FinalizeInputs : Receive(r, input)
    \/ \E r \in Slots : \E fetchOk \in BOOLEAN : JwtVerifyReturn(r, fetchOk)
    \/ \E r \in Slots : \E available \in BOOLEAN : InsertReturn(r, available)
    \/ \E r \in Slots : Forget(r)

SpecFinalize == InitFinalize /\ [][NextFinalize]_vars

----------------------------------------------------------------------------
(* complete alone: one request at a time, through the paths and the          *)
(* processing flag a body can carry                                          *)

PathA == Str(<<"a/x.wav">>)
PathM == Str(<<"a/y.wav">>)
PathV == Str(<<"a/v.avi">>)

CompleteFieldBodies ==
    {Json(MkObj([report_id |-> Str(<<UuidNames[1]>>), audio_path |-> a, microphone_path |-> m,
                 video_path |-> v, forwarded_to_modulate |-> f])) :
        a \in {Undef, Null, Str(<<>>), PathA},
        m \in {Undef, Null, Str(<<>>), PathM},
        v \in {Undef, Str(<<>>), PathV},
        f \in {Undef, Bool(TRUE)}}

CompleteFieldInputs ==
    {Input("complete", GoodHeader, TokenOf(URL1, UserA), b) : b \in CompleteFieldBodies}

InitComplete == InitWith({FullEnv}, {1})

NextComplete ==
    \/ \E input \in CompleteFieldInputs : Receive(1, input)
    \/ \E fetchOk \in BOOLEAN : JwtVerifyReturn(1, fetchOk)
    \/ \E available \in BOOLEAN : InsertReturn(1, available)
    \/ Forget(1)

SpecComplete == InitComplete /\ [][NextComplete]_vars

----------------------------------------------------------------------------
(* init alone: two requests handled concurrently *)

InitiateInputs ==
    {Input("init", GoodHeader, TokenOf(URL1, sub), Json(MkObj([has_microphone |-> m, has_video |-> v]))) :
        sub \in {UserA, UserB}, m \in {Bool(FALSE), Bool(TRUE)}, v \in {Bool(FALSE), Bool(TRUE)}}

InitInitiate == InitWith({FullEnv}, Slots)

NextInitiate ==
    \/ \E r \in Slots : \E input \in InitiateInputs : Receive(r, input)
    \/ \E r \in Slots : \E fetchOk \in BOOLEAN : JwtVerifyReturn(r, fetchOk)
    \/ \E r \in Slots : AudioReturn(r)
    \/ \E r \in Slots : MicrophoneReturn(r)
    \/ \E r \in Slots : VideoReturn(r)
    \/ \E r \in Slots : Forget(r)

SpecInitiate == InitInitiate /\ [][NextInitiate]_vars

----------------------------------------------------------------------------
(* The two phases end to end: an init request in slot 1, then a complete     *)
(* request in slot 2 carrying a report_id that init returned                 *)

FollowingInputs ==
    {Input("complete", GoodHeader, TokenOf(URL1, sub),
           Json(MkObj([report_id |-> id, audio_path |-> a, video_path |-> v]))) :
        sub \in {UserA, UserB}, id \in returned, a \in {Undef, PathA}, v \in {Undef, PathV}}

InitEndToEnd == InitWith({FullEnv}, Slots)

NextEndToEnd ==
    \/ \E input \in InitiateInputs : Receive(1, input)
    \/ \E input \in FollowingInputs : Receive(2, input)
    \/ \E r \in Slots : \E fetchOk \in BOOLEAN : JwtVerifyReturn(r, fetchOk)
    \/ AudioReturn(1)
    \/ MicrophoneReturn(1)
    \/ VideoReturn(1)
    \/ \E available \in BOOLEAN : InsertReturn(2, available)

SpecEndToEnd == InitEndToEnd /\ [][NextEndToEnd]_vars

----------------------------------------------------------------------------
(* One caller at a time with the clock: every route, /health included *)

FewHeaders ==
    {Undef, Str(<<>>), GoodHeader, Str(<<"bearer", SP, "jwt">>), Str(<<"Bearer">>),
     Str(<<"Bearer", SP, SP, "jwt">>)}

SoloInputs ==
    {Input("legacy", h, TokenOf(URL1, UserA), BadJson) : h \in FewHeaders}
    \cup {Input("legacy", GoodHeader, t, BadJson) :
             t \in {ForgedToken(UserA), TokenOf(URL1, Undef),
                    [TokenOf(URL1, UserA) EXCEPT !.expired = TRUE],
                    [TokenOf(URL1, UserA) EXCEPT !.aud = "anon"],
                    TokenOf(URL2, UserA)}}
    \cup {Input("init", GoodHeader, TokenOf(URL1, UserA),
                 Json(MkObj([has_microphone |-> Bool(TRUE), has_video |-> Bool(TRUE)]))),
          Input("complete", GoodHeader, TokenOf(URL1, UserA),
                 Json(MkObj([report_id |-> Str(<<UuidNames[1]>>)])))}

HealthInputs == {Input("health", h, NoTok, BadJson) : h \in FewHeaders}

InitSolo == InitWith({FullEnv}, {1})

NextSolo ==
    \/ \E input \in SoloInputs : Receive(1, input)
    \/ \E input \in HealthInputs : Health(1, input)
    \/ \E fetchOk \in BOOLEAN : JwtVerifyReturn(1, fetchOk)
    \/ AudioReturn(1)
    \/ MicrophoneReturn(1)
    \/ VideoReturn(1)
    \/ \E available \in BOOLEAN : InsertReturn(1, available)
    \/ Forget(1)
    \/ \E d \in TickSteps : Tick(d)

SpecSolo == InitSolo /\ [][NextSolo]_vars

----------------------------------------------------------------------------
(* verifyToken called for two issuer locations, one call at a time *)

IssuerLocations == {URL1, URL2}

IssuerInputs ==
    {Input("legacy", GoodHeader, t, BadJson) :
        t \in {TokenOf(URL1, UserA), TokenOf(URL2, UserA),
               [TokenOf(URL1, UserA) EXCEPT !.iss = ExpectedIssuer(Str(<<URL2>>))]}}

InitIssuers == InitWith({FullEnv}, {1})

NextIssuers ==
    \/ \E input \in IssuerInputs : Receive(1, input)
    \/ \E fetchOk \in BOOLEAN : JwtVerifyReturn(1, fetchOk)
    \/ Forget(1)
    \/ \E url \in IssuerLocations : Bind(url)
    \/ \E d \in TickSteps : Tick(d)

SpecIssuers == InitIssuers /\ [][NextIssuers]_vars

----------------------------------------------------------------------------
(* init and complete requests handled concurrently, a few inputs *)

SharedInputs ==
    {Input("init", GoodHeader, TokenOf(URL1, UserA), b) :
        b \in {BadJson, Json(MkObj([has_microphone |-> Bool(TRUE)]))}}
    \cup {Input("complete", GoodHeader, t, Json(MkObj([report_id |-> Str(<<UuidNames[1]>>)]))) :
             t \in {TokenOf(URL1, UserA), ForgedToken(UserA)}}

InitShared == InitWith({FullEnv}, Slots)

NextShared ==
    \/ \E r \in Slots : \E input \in SharedInputs : Receive(r, input)
    \/ \E r \in Slots : \E fetchOk \in BOOLEAN : JwtVerifyReturn(r, fetchOk)
    \/ \E r \in Slots : AudioReturn(r)
    \/ \E r \in Slots : MicrophoneReturn(r)
    \/ \E r \in Slots : \E available \in BOOLEAN : InsertReturn(r, available)
    \/ \E r \in Slots : Forget(r)

SpecShared == InitShared /\ [][NextShared]_vars

----------------------------------------------------------------------------
(* Every protected route under every configuration, one request at a time *)

ConfigInputs ==
    {Input(route, a[1], a[2], b) :
        route \in {"init", "complete", "legacy"},
        a \in ValidAuth \cup InvalidAuth \cup {<<Str(<<"bearer", SP, "jwt">>), TokenOf(URL1, UserA)>>},
        b \in {BadJson, Json(MkObj([report_id |-> Str(<<UuidNames[1]>>), has_microphone |-> Bool(TRUE)]))}}

InitConfig == InitWith({FullEnv, NoUrlEnv, NoKeyEnv}, {1})

NextConfig ==
    \/ \E input \in ConfigInputs : Receive(1, input)
    \/ \E fetchOk \in BOOLEAN : JwtVerifyReturn(1, fetchOk)
    \/ AudioReturn(1)
    \/ MicrophoneReturn(1)
    \/ \E available \in BOOLEAN : InsertReturn(1, available)
    \/ Forget(1)

SpecConfig == InitConfig /\ [][NextConfig]_vars

----------------------------------------------------------------------------
(* init alone, one request at a time: every body, every answer of storage *)

GrantInputs ==
    {Input("init", GoodHeader, TokenOf(URL1, UserA), b) : b \in InitBodies}

InitGrants == InitWith({FullEnv}, {1})

NextGrants ==
    \/ \E input \in GrantInputs : Receive(1, input)
    \/ \E fetchOk \in BOOLEAN : JwtVerifyReturn(1, fetchOk)
    \/ AudioReturn(1)
    \/ MicrophoneReturn(1)
    \/ VideoReturn(1)
    \/ Forget(1)

SpecGrants == InitGrants /\ [][NextGrants]_vars

----------------------------------------------------------------------------
(* One complete request, through the metadata a body can carry *)

TextValues == {Undef, Str(<<>>), Str(<<"text">>)}

MetadataBodies ==
    {Json(MkObj([report_id |-> Str(<<UuidNames[1]>>),
                 game_name |-> g, offender_name |-> g,
                 description |-> d,
                 desired_action |-> x, recording_start_utc |-> x, flag_utc |-> x,
                 targeted |-> t,
                 clip_start_offset_sec |-> s, clip_end_offset_sec |-> e])) :
        g \in {Undef, Str(<<"game">>)}, d \in TextValues, x \in TextValues,
        t \in {Undef, Null, Bool(FALSE), Bool(TRUE)},
        s \in {Undef, Num(0), Num(5)}, e \in {Undef, Num(0)}}

MetadataInputs ==
    {Input("complete", GoodHeader, TokenOf(URL1, UserA), b) : b \in MetadataBodies}

InitMetadata == InitWith({FullEnv}, {1})

NextMetadata ==
    \/ \E input \in MetadataInputs : Receive(1, input)
    \/ \E fetchOk \in BOOLEAN : JwtVerifyReturn(1, fetchOk)
    \/ \E available \in BOOLEAN : InsertReturn(1, available)

SpecMetadata == InitMetadata /\ [][NextMetadata]_vars

----------------------------------------------------------------------------
(* Two complete requests of one subject for one report_id, through the paths *)
(* a body can name: those init issues for the report_id, and others          *)

PathBodies ==
    LET id == Str(<<UuidNames[1]>>)
    IN {Json(MkObj([report_id |-> id, audio_path |-> a, microphone_path |-> m, video_path |-> v])) :
           a \in {Undef, PathA, AudioPath(id)},
           m \in {Undef, PathM, MicrophonePath(id)},
           v \in {Undef, PathV, VideoPath(id)}}

PathInputs ==
    {Input("complete", GoodHeader, TokenOf(URL1, UserA), b) : b \in PathBodies}

InitPaths == InitWith({FullEnv}, Slots)

NextPaths ==
    \/ \E r \in Slots : \E input \in PathInputs : Receive(r, input)
    \/ \E r \in Slots : \E fetchOk \in BOOLEAN : JwtVerifyReturn(r, fetchOk)
    \/ \E r \in Slots : \E available \in BOOLEAN : InsertReturn(r, available)

SpecPaths == InitPaths /\ [][NextPaths]_vars

----------------------------------------------------------------------------
(* init and complete, one request at a time, through the sub claims a token *)
(* can carry                                                                *)

SubjectInputs ==
    {Input(route, GoodHeader, t, Json(MkObj([report_id |-> Str(<<UuidNames[1]>>)]))) :
        route \in {"init", "complete"},
        t \in {TokenOf(URL1, sub) : sub \in Subjects} \cup {ForgedToken(sub) : sub \in Subjects}}

InitSubjects == InitWith({FullEnv, NoKeyEnv}, {1})

NextSubjects ==
    \/ \E input \in SubjectInputs : Receive(1, input)
    \/ \E fetchOk \in BOOLEAN : JwtVerifyReturn(1, fetchOk)
    \/ AudioReturn(1)
    \/ \E available \in BOOLEAN : InsertReturn(1, available)
    \/ Forget(1)

SpecSubjects == InitSubjects /\ [][NextSubjects]_vars

----------------------------------------------------------------------------
(* Every route, one request per slot, every external call returning in the *)
(* end                                                                      *)

LiveInputs ==
    {Input("init", a[1], a[2], b) :
        a \in {<<GoodHeader, TokenOf(URL1, UserA)>>, <<GoodHeader, ForgedToken(UserA)>>},
        b \in {BadJson, Json(Null),
               Json(MkObj([has_microphone |-> Bool(TRUE), has_video |-> Bool(TRUE)]))}}
    \cup {Input("complete", a[1], a[2], b) :
             a \in {<<GoodHeader, TokenOf(URL1, UserA)>>, <<Undef, NoTok>>},
             b \in {BadJson, Json(Null), Json(MkObj([report_id |-> Str(<<UuidNames[1]>>)]))}}

UnknownInputs ==
    {Input("unknown", h, NoTok, BadJson) : h \in {Undef, GoodHeader}}

InitLive == InitWith({FullEnv, NoUrlEnv, NoKeyEnv}, Slots)

NextLive ==
    \/ \E r \in Slots : \E input \in LiveInputs : Receive(r, input)
    \/ \E r \in Slots : \E input \in HealthInputs : Health(r, input)
    \/ \E r \in Slots : \E input \in UnknownInputs : NotFound(r, input)
    \/ \E r \in Slots : \E fetchOk \in BOOLEAN : JwtVerifyReturn(r, fetchOk)
    \/ \E r \in Slots : AudioReturn(r)
    \/ \E r \in Slots : MicrophoneReturn(r)
    \/ \E r \in Slots : VideoReturn(r)
    \/ \E r \in Slots : \E available \in BOOLEAN : InsertReturn(r, available)

\* Every external call a request waits on returns in the end, with a result
\* or with an error
CallsReturn ==
    \A r \in Slots :
       /\ WF_vars(\E fetchOk \in BOOLEAN : JwtVerifyReturn(r, fetchOk))
       /\ WF_vars(AudioReturn(r))
       /\ WF_vars(MicrophoneReturn(r))
       /\ WF_vars(VideoReturn(r))
       /\ WF_vars(\E available \in BOOLEAN : InsertReturn(r, available))

SpecLive == InitLive /\ [][NextLive]_vars /\ CallsReturn



NonNull(v) == ~IsNullish(v)

\* The subject verifyToken verified for request q: the sub claim of its token
VerifiedSubject(q) == q.tok.sub

\* A field of the body the client sent with q (Undef when there is none)
BodyField(q, f) == IF q.body = BadJson THEN Undef ELSE Field(q.body[2], f)

\* C1: every row built by complete carries as user_id the subject verified
\* for that same request, whatever the body says; a request answered 201 has
\* that row in the table; and two complete requests with the same verified
\* subject build rows with the same user_id.
C1_OwnerIsVerifiedSubject ==
    /\ \A r \in DOMAIN req :
          req[r].row # Undef =>
             /\ IsOk(req[r].verify)
             /\ req[r].row[2].user_id = VerifiedSubject(req[r])
             /\ (req[r].pc = "done" /\ Status(req[r]) = 201) =>
                   \E row \in reports :
                      /\ row.id = BodyField(req[r], "report_id")
                      /\ row.user_id = VerifiedSubject(req[r])
    /\ \A r1, r2 \in DOMAIN req :
          (/\ req[r1].row # Undef
           /\ req[r2].row # Undef
           /\ VerifiedSubject(req[r1]) = VerifiedSubject(req[r2]))
          => req[r1].row[2].user_id = req[r2].row[2].user_id

\* C1 witness: a complete request of user A whose body names user B as
\* user_id is answered 201 and its row belongs to A.
C1_Witness ==
    \E r \in DOMAIN req :
       /\ req[r].pc = "done"
       /\ Status(req[r]) = 201
       /\ VerifiedSubject(req[r]) = UserA
       /\ BodyField(req[r], "user_id") = UserB
       /\ \E row \in reports : row.user_id = UserA

\* C2: a request has asked storage for a grant or the database for an insert
\* only if verifyToken succeeded for it; with SUPABASE_URL configured, a
\* request whose verification failed is answered 401, whatever its body.
C2_NoEffectWithoutVerification ==
    \A r \in DOMAIN req :
       /\ (req[r].grantReqs # <<>> \/ req[r].inserts > 0) => IsOk(req[r].verify)
       /\ (/\ Truthy(env.SUPABASE_URL)
           /\ req[r].pc = "done"
           /\ ~IsOk(req[r].verify))
          => (Status(req[r]) = 401 /\ req[r].grantReqs = <<>> /\ req[r].inserts = 0)

\* C2 witness: a complete request with a forged token and a body without
\* report_id is answered 401.
C2_Witness ==
    \E r \in DOMAIN req :
       /\ req[r].pc = "done"
       /\ req[r].route = "complete"
       /\ req[r].tok = ForgedToken(UserA)
       /\ BodyField(req[r], "report_id") = Undef
       /\ Status(req[r]) = 401

\* "Bearer <single-token-string>": the word Bearer, one space, and a token
\* that is not empty and holds no whitespace
WellFormedHeader(h) ==
    /\ IsStr(h)
    /\ Len(h[2]) >= 3
    /\ h[2][1] = "Bearer"
    /\ h[2][2] = SP
    /\ \A i \in 3..Len(h[2]) : h[2][i] \notin {SP, TAB}

\* The token of q is a JWT signed by the trusted issuer, unexpired, with the
\* expected issuer and audience and a non-empty sub
ValidToken(q) ==
    /\ q.hdr = GoodHeader
    /\ q.tok.signer = env.SUPABASE_URL[2] \o <<"/auth/v1/.well-known/jwks.json">>
    /\ ~q.tok.expired
    /\ q.tok.iss = env.SUPABASE_URL[2] \o <<"/auth/v1">>
    /\ q.tok.aud = "authenticated"
    /\ IsStr(q.tok.sub)
    /\ q.tok.sub[2] # <<>>

\* C3 as claimed: with a well-formed header, verifyToken returns the subject
\* of every valid token and fails with CredentialRejected for every other.
C3_ValidTokenAlwaysAccepted ==
    \A r \in DOMAIN req :
       (req[r].pc = "done" /\ WellFormedHeader(req[r].hdr)) =>
          /\ ValidToken(req[r]) => req[r].verify = Ok(req[r].tok.sub)
          /\ ~ValidToken(req[r]) => CredentialRejected(req[r].verify)

\* C3 as amended: with a well-formed header, verifyToken returns the subject
\* of a valid token when the key set could be fetched, and fails with
\* CredentialRejected when the token is not valid or the fetch failed.
C3_ValidTokenAcceptedWhenKeysFetched ==
    \A r \in DOMAIN req :
       (req[r].pc = "done" /\ WellFormedHeader(req[r].hdr)) =>
          /\ (ValidToken(req[r]) /\ req[r].fetched) => req[r].verify = Ok(req[r].tok.sub)
          /\ (~ValidToken(req[r]) \/ ~req[r].fetched) => CredentialRejected(req[r].verify)

\* C3 witness: a valid token of user A has been verified, the key set fetched.
C3_Witness ==
    \E r \in DOMAIN req :
       /\ req[r].pc = "done"
       /\ ValidToken(req[r])
       /\ req[r].fetched
       /\ req[r].verify = Ok(UserA)

\* C4: verifyToken fails with MalformedCredential for every header that is
\* absent or not of the form "Bearer <single-token-string>".
C4_MalformedHeaderIsMalformedCredential ==
    \A r \in DOMAIN req :
       (req[r].pc = "done" /\ ~WellFormedHeader(req[r].hdr)) =>
          MalformedCredential(req[r].verify)

\* A verifyToken call resolves the key set in this step
Resolves(r) == req[r].pc = "idle" /\ req'[r].pc = "jwtVerify"

\* C5: two creations of the key set are never within one TTL of each other,
\* a call that finds the entry within its TTL creates none, and a call that
\* finds no entry or one older than the TTL replaces it exactly once, at the
\* call's time.
C5_OneCreationPerWindow ==
    /\ [](\A t1, t2 \in created : t1 < t2 => t2 - t1 > JWKS_CACHE_TTL)
    /\ [][\A r \in DOMAIN req :
             Resolves(r) =>
                IF ~Truthy(jwksCache.jwks) \/ now - jwksCache.timestamp > JWKS_CACHE_TTL
                THEN /\ jwksCache'.timestamp = now
                     /\ jwksCache'.jwks # jwksCache.jwks
                     /\ now \notin created
                     /\ created' = created \cup {now}
                ELSE /\ jwksCache' = jwksCache
                     /\ created' = created]_vars

\* C5 witness: the key set was created, reused by a later call within the
\* TTL, and replaced by a call after the TTL.
C5_Witness ==
    /\ Cardinality(created) = 2
    /\ \E r \in DOMAIN req :
          /\ req[r].jwks # Null
          /\ req[r].resolvedAt > req[r].seenTimestamp

\* C6: the key set a call got from the cache was, when the call resolved it,
\* at most one TTL old.
C6_UsedKeySetWithinTTL ==
    \A r \in DOMAIN req :
       req[r].jwks # Null =>
          /\ req[r].resolvedAt - req[r].seenTimestamp >= 0
          /\ req[r].resolvedAt - req[r].seenTimestamp <= JWKS_CACHE_TTL

\* C6 witness: a call verified with a key set exactly one TTL old.
C6_Witness ==
    \E r \in DOMAIN req :
       /\ req[r].usedJwks # Null
       /\ req[r].resolvedAt - req[r].seenTimestamp = JWKS_CACHE_TTL

\* C7: the cache pair is whole in every state requests can observe (the
\* key set is the one created at the entry's timestamp), every call got a
\* whole pair, and a call verifies with the key set it got from the cache.
C7_NoTornRead ==
    /\ Truthy(jwksCache.jwks) => jwksCache.jwks[3] = jwksCache.timestamp
    /\ \A r \in DOMAIN req :
          /\ req[r].jwks # Null => req[r].jwks[3] = req[r].seenTimestamp
          /\ req[r].usedJwks # Null => req[r].usedJwks = req[r].jwks

\* C7 witness: a call verified with the key set it had got although another
\* request had replaced the cache entry meanwhile.
C7_Witness ==
    \E r \in DOMAIN req :
       /\ req[r].usedJwks # Null
       /\ req[r].usedJwks # jwksCache.jwks

\* The flag f was true in the body sent with q
Asked(q, f) == BodyField(q, f) = Bool(TRUE)

Issued(ans) == ans[1] = "data" /\ IsStr(ans[2].signedUrl) /\ ans[2].signedUrl[2] # <<>>

ResultFields ==
    {"report_id",
     "audio_upload_url", "audio_upload_token", "audio_path",
     "microphone_upload_url", "microphone_upload_token", "microphone_path",
     "video_upload_url", "video_upload_token", "video_path"}

\* C9: an init request for which storage failed to issue a grant is answered
\* 500 with no report_id and no url, token or path of any slot.
C9_NoPartialResult ==
    \A r \in DOMAIN req :
       (/\ req[r].route = "init"
        /\ req[r].pc = "done"
        /\ \E i \in 1..Len(req[r].answers) : ~Issued(req[r].answers[i]))
       => /\ Status(req[r]) = 500
          /\ DOMAIN RespBody(req[r]) \cap ResultFields = {}

\* C9 witness: the audio grant was issued, the microphone grant failed.
C9_Witness ==
    \E r \in DOMAIN req :
       /\ req[r].pc = "done"
       /\ Len(req[r].answers) = 2
       /\ Issued(req[r].answers[1])
       /\ ~Issued(req[r].answers[2])
       /\ Status(req[r]) = 500

\* C10: no step of handling an init request changes the reports table.
C10_InitLeavesTableAlone ==
    [][\A r \in DOMAIN req :
          (req'[r] # req[r] /\ (req[r].route = "init" \/ req'[r].route = "init"))
          => reports' = reports]_vars

\* C10 witness: an init request was answered 200, its report_id has no row.
C10_Witness ==
    \E r \in DOMAIN req :
       /\ req[r].route = "init"
       /\ req[r].pc = "done"
       /\ Status(req[r]) = 200
       /\ ~\E row \in reports : row.id = req[r].reportId

----------------------------------------------------------------------------
(* complete: its checks, its row and its answer *)

\* Authentication and the configuration checks let the complete request q
\* through to its handler's body
ReachedComplete(q) ==
    /\ q.route = "complete"
    /\ q.pc \in {"insert", "done"}
    /\ IsOk(q.verify)
    /\ env = FullEnv

\* The body of q parsed as JSON and holds no non-empty report_id
LacksReportId(q) ==
    /\ q.body # BadJson
    /\ \/ ~IsObj(q.body[2])
       \/ BodyField(q, "report_id") \in {Undef, Null, Str(<<>>)}

\* C11: every authenticated complete request whose body parsed as JSON and
\* lacks a non-empty report_id (absent, null, empty, or a body that is not an
\* object, such as null) is answered 400, and no insert is attempted.
C11_MissingReportIdIs400 ==
    \A r \in DOMAIN req :
       (ReachedComplete(req[r]) /\ LacksReportId(req[r]))
       => /\ req[r].pc = "done"
          /\ Status(req[r]) = 400
          /\ req[r].inserts = 0

\* A string with at least one character
NonEmpty(v) == IsStr(v) /\ v[2] # <<>>

\* What the claim says is persisted for the two audio paths a and m
CombinedAudio(a, m) ==
    CASE NonEmpty(a) /\ NonEmpty(m) -> Str(a[2] \o <<",">> \o m[2])
      [] NonEmpty(a) /\ ~NonEmpty(m) -> a
      [] ~NonEmpty(a) /\ NonEmpty(m) -> m
      [] OTHER -> Null

\* The stored audio_path v has no comma at either end and no video path in it
CleanAudio(v) ==
    IsStr(v) =>
       /\ v[2] # <<>>
       /\ v[2][1] # ","
       /\ v[2][Len(v[2])] # ","
       /\ \A i \in 1..Len(v[2]) : Str(<<v[2][i]>>) # PathV

\* C12: the audio_path of the row complete builds is decided by the body's
\* audio_path and microphone_path alone: both non-empty gives the two joined
\* by a comma in that order, one non-empty gives that one, neither gives
\* null; it has no comma at either end and never holds the video path.
C12_AudioPathIsJoin ==
    /\ \A r \in DOMAIN req :
          req[r].row # Undef =>
             /\ req[r].row[2].audio_path =
                   CombinedAudio(BodyField(req[r], "audio_path"),
                                 BodyField(req[r], "microphone_path"))
             /\ CleanAudio(req[r].row[2].audio_path)
    /\ \A row \in reports : CleanAudio(row.audio_path)

\* C12 witness: a stored row holds both paths joined, its body named a video
\* path too.
C12_Witness ==
    \E r \in DOMAIN req :
       /\ req[r].pc = "done"
       /\ Status(req[r]) = 201
       /\ BodyField(req[r], "video_path") = PathV
       /\ \E row \in reports :
             /\ row.audio_path = Str(<<"a/x.wav", ",", "a/y.wav">>)
             /\ row.video_path = PathV

\* C13: every complete request that passes authentication and the report_id
\* check attempts one insert, of the one row it built, and that row's
\* forwarded_to_modulate is false whatever the body holds; every step that
\* changes the table adds that one row, and every stored row has the flag
\* false.
C13_OneInsertFlagFalse ==
    /\ [](\A r \in DOMAIN req :
             (ReachedComplete(req[r]) /\ req[r].body # BadJson /\ ~LacksReportId(req[r]))
             => /\ req[r].inserts = 1
                /\ req[r].row # Undef
                /\ req[r].row[2].forwarded_to_modulate = Bool(FALSE))
    /\ [](\A row \in reports : row.forwarded_to_modulate = Bool(FALSE))
    /\ [][reports' # reports =>
             \E r \in DOMAIN req :
                /\ req[r].pc = "insert"
                /\ reports' = reports \cup {req[r].row[2]}
                /\ Cardinality(reports') = Cardinality(reports) + 1]_vars

\* C13 witness: a body setting forwarded_to_modulate to true was answered
\* 201 and its row is stored.
C13_Witness ==
    \E r \in DOMAIN req :
       /\ req[r].pc = "done"
       /\ Status(req[r]) = 201
       /\ BodyField(req[r], "forwarded_to_modulate") = Bool(TRUE)
       /\ req[r].row[2] \in reports

\* The database rejected the insert of q
InsertRejected(q) == q.dbAnswer # Undef /\ q.dbAnswer # DbOk

\* C14: a complete request is answered 201 exactly when its insert succeeded,
\* and then with {ok: true, report_id} echoing the body's report_id, the row
\* being stored; when the insert is rejected it is answered 500 with the
\* database's message as details, and the insert was attempted once only.
C14_Created201IffInserted ==
    \A r \in DOMAIN req :
       (req[r].route = "complete" /\ req[r].pc = "done")
       => /\ Status(req[r]) = 201 <=> req[r].dbAnswer = DbOk
          /\ req[r].dbAnswer = DbOk =>
                /\ RespBody(req[r]) =
                      [ok |-> Bool(TRUE), report_id |-> BodyField(req[r], "report_id")]
                /\ req[r].row[2] \in reports
          /\ InsertRejected(req[r]) =>
                /\ Status(req[r]) = 500
                /\ Get(RespBody(req[r]), "details") = Str(<<req[r].dbAnswer[2]>>)
                /\ Get(RespBody(req[r]), "error") = Str(<<"Failed to create report">>)
                /\ req[r].inserts = 1
          /\ req[r].inserts <= 1

\* C14 witness: an insert rejected for a duplicate id was answered 500.
C14_Witness ==
    \E r \in DOMAIN req :
       /\ req[r].pc = "done"
       /\ req[r].dbAnswer = DbError("duplicate key value violates unique constraint")
       /\ Status(req[r]) = 500
       /\ \E row \in reports : row.id = BodyField(req[r], "report_id")

\* C15: the id of every row of the reports table is a report_id that an
\* earlier init request returned in a 200 response.
C15_RowIdsCameFromInit ==
    \A row \in reports : row.id \in returned

\* Request q has just been answered 201
Answered201(q) == q.pc = "done" /\ Status(q) = 201

\* C16: a stored row is never changed or removed; the table never holds two
\* rows with one id; a complete request is answered 201 only by the step that
\* stores the first row with its report_id, so of the complete requests
\* carrying one report_id, one after another or concurrently, at most one is
\* answered 201; and one whose insert ran while a row with that id existed is
\* answered 500.
C16_PersistedIsFinal ==
    /\ [](\A row1, row2 \in reports : row1.id = row2.id => row1 = row2)
    /\ [](\A r1, r2 \in DOMAIN req :
             (/\ r1 # r2
              /\ Answered201(req[r1])
              /\ Answered201(req[r2]))
             => BodyField(req[r1], "report_id") # BodyField(req[r2], "report_id"))
    /\ [][/\ reports \subseteq reports'
          /\ \A r \in DOMAIN req :
                (~Answered201(req[r]) /\ Answered201(req'[r]))
                => /\ ~\E row \in reports : row.id = BodyField(req'[r], "report_id")
                   /\ \E row \in reports' : row.id = BodyField(req'[r], "report_id")
          /\ \A r \in DOMAIN req :
                (/\ req[r].pc = "insert"
                 /\ req'[r].pc = "done"
                 /\ \E row \in reports : row.id = BodyField(req[r], "report_id"))
                => /\ Status(req'[r]) = 500
                   /\ reports' = reports]_vars

\* C16 witness: two concurrent complete requests from different subjects
\* carried one report_id; one was answered 201, the other 500, one row exists.
C16_Witness ==
    \E r1, r2 \in DOMAIN req :
       /\ r1 # r2
       /\ Answered201(req[r1])
       /\ req[r2].pc = "done"
       /\ Status(req[r2]) = 500
       /\ req[r2].dbAnswer = DbError("duplicate key value violates unique constraint")
       /\ BodyField(req[r1], "report_id") = BodyField(req[r2], "report_id")
       /\ VerifiedSubject(req[r1]) # VerifiedSubject(req[r2])
       /\ Cardinality({row \in reports : row.id = BodyField(req[r1], "report_id")}) = 1

----------------------------------------------------------------------------
(* init: its identifiers and its grants *)

\* The init request q has been answered 200
InitAnswered(q) == q.route = "init" /\ q.pc = "done" /\ Status(q) = 200

\* C17: the report_id values init returns are pairwise distinct: two requests
\* in progress never hold one id, whatever their bodies and subjects, equal
\* ones included; the id a request takes was never generated before; and a
\* 200 response never carries an id an earlier 200 response carried.
C17_ReportIdsDistinct ==
    /\ [](\A r1, r2 \in DOMAIN req :
             (r1 # r2 /\ req[r1].reportId # Undef /\ req[r2].reportId # Undef)
             => req[r1].reportId # req[r2].reportId)
    /\ [](\A r \in DOMAIN req :
             InitAnswered(req[r]) => Get(RespBody(req[r]), "report_id") = req[r].reportId)
    /\ [][\A r \in DOMAIN req :
             /\ (req[r].reportId = Undef /\ req'[r].reportId # Undef)
                => req'[r].reportId \notin uuids
             /\ (~InitAnswered(req[r]) /\ InitAnswered(req'[r]))
                => Get(RespBody(req'[r]), "report_id") \notin returned]_vars

\* C17 witness: two init requests with the same subject and the same body
\* were answered 200 with different report_id values.
C17_Witness ==
    \E r1, r2 \in DOMAIN req :
       /\ r1 # r2
       /\ InitAnswered(req[r1])
       /\ InitAnswered(req[r2])
       /\ req[r1].body = req[r2].body
       /\ VerifiedSubject(req[r1]) = VerifiedSubject(req[r2])
       /\ Get(RespBody(req[r1]), "report_id") # Get(RespBody(req[r2]), "report_id")

\* The path the claim gives for a slot of the report id
PathOf(id, suffix) == Str(id[2] \o <<suffix>>)

\* The three paths of a report id
PathsOfReport(id) ==
    {PathOf(id, "/system_audio.wav"), PathOf(id, "/microphone.wav"),
     PathOf(id, "/screen_recording.avi")}

\* The grants the claim says were requested for the answered init request q
GrantsFor(q) ==
    LET id == Get(RespBody(q), "report_id")
    IN <<<<"reports-audio", PathOf(id, "/system_audio.wav")>>>>
       \o (IF Asked(q, "has_microphone")
           THEN <<<<"reports-audio", PathOf(id, "/microphone.wav")>>>> ELSE <<>>)
       \o (IF Asked(q, "has_video")
           THEN <<<<"reports-video", PathOf(id, "/screen_recording.avi")>>>> ELSE <<>>)

\* The non-null paths of the answer to q
PathsAnswered(q) ==
    {Get(RespBody(q), f) : f \in {"audio_path", "microphone_path", "video_path"}} \ {Null}

\* C18: an init request answered 200 requested one grant per requested slot,
\* in buckets 'reports-audio' (audio, microphone) and 'reports-video' (video),
\* at report_id + '/system_audio.wav', '/microphone.wav' and
\* '/screen_recording.avi'; the response's paths are those, the non-null ones
\* pairwise distinct; and two init responses never share a path.
C18_OneGrantPerSlot ==
    /\ [](\A r \in DOMAIN req :
             InitAnswered(req[r]) =>
                LET b == RespBody(req[r])
                    id == Get(b, "report_id")
                    mic == Asked(req[r], "has_microphone")
                    vid == Asked(req[r], "has_video")
                IN /\ req[r].grantReqs = GrantsFor(req[r])
                   /\ Get(b, "audio_path") = PathOf(id, "/system_audio.wav")
                   /\ Get(b, "microphone_path") =
                         IF mic THEN PathOf(id, "/microphone.wav") ELSE Null
                   /\ Get(b, "video_path") =
                         IF vid THEN PathOf(id, "/screen_recording.avi") ELSE Null
                   /\ Cardinality(PathsAnswered(req[r])) =
                         1 + (IF mic THEN 1 ELSE 0) + (IF vid THEN 1 ELSE 0)
                   /\ \A i, j \in 1..Len(req[r].grantReqs) :
                         i # j => req[r].grantReqs[i][2] # req[r].grantReqs[j][2])
    /\ [](\A r1, r2 \in DOMAIN req :
             (r1 # r2 /\ InitAnswered(req[r1]) /\ InitAnswered(req[r2]))
             => PathsAnswered(req[r1]) \cap PathsAnswered(req[r2]) = {})
    /\ [][\A r \in DOMAIN req :
             (~InitAnswered(req[r]) /\ InitAnswered(req'[r]))
             => \A id \in returned : PathsAnswered(req'[r]) \cap PathsOfReport(id) = {}]_vars

\* C18 witness: an init request asking for all three slots was answered 200
\* with three distinct paths, while another init response exists.
C18_Witness ==
    \E r1, r2 \in DOMAIN req :
       /\ r1 # r2
       /\ InitAnswered(req[r1])
       /\ InitAnswered(req[r2])
       /\ Len(req[r1].grantReqs) = 3
       /\ Cardinality(PathsAnswered(req[r1])) = 3

----------------------------------------------------------------------------
(* The two phases end to end *)

\* Storage was available for this grant: it answered with a url and a token
Granted(ans) == ans[1] = "data" /\ NonEmpty(ans[2].signedUrl) /\ NonEmpty(ans[2].token)

\* Storage was available for every grant q requested
StorageAvailable(q) == \A i \in 1..Len(q.answers) : Granted(q.answers[i])

\* The database was available for the insert of q
DatabaseAvailable(q) == q.dbAnswer # DbError("connection failure")

MicrophoneFields == {"microphone_upload_url", "microphone_upload_token", "microphone_path"}
VideoFields == {"video_upload_url", "video_upload_token", "video_path"}

\* C19: with a verified caller and storage available, init with
\* {has_microphone: true, has_video: false} ends in 200 with every microphone
\* field non-null and every video field null; with a verified caller and the
\* database available, the complete that follows with the returned report_id
\* and no video_path ends in 201 with that report_id, its row stored with
\* video_path null.  No other answer is possible.
C19_EndToEnd ==
    /\ (/\ req[1].pc = "done"
        /\ IsOk(req[1].verify)
        /\ Asked(req[1], "has_microphone")
        /\ BodyField(req[1], "has_video") = Bool(FALSE)
        /\ StorageAvailable(req[1]))
       => /\ Status(req[1]) = 200
          /\ Get(RespBody(req[1]), "report_id") = req[1].reportId
          /\ \A f \in MicrophoneFields : NonNull(Get(RespBody(req[1]), f))
          /\ \A f \in VideoFields : Get(RespBody(req[1]), f) = Null
    /\ (/\ req[2].pc = "done"
        /\ IsOk(req[2].verify)
        /\ BodyField(req[2], "video_path") = Undef
        /\ DatabaseAvailable(req[2]))
       => /\ InitAnswered(req[1])
          /\ BodyField(req[2], "report_id") = Get(RespBody(req[1]), "report_id")
          /\ Status(req[2]) = 201
          /\ RespBody(req[2]) = [ok |-> Bool(TRUE), report_id |-> Get(RespBody(req[1]), "report_id")]
          /\ \E row \in reports :
                /\ row.id = Get(RespBody(req[1]), "report_id")
                /\ row.video_path = Null
          /\ Cardinality(reports) = 1

\* C19 witness: the final state of the scenario.
C19_Witness ==
    /\ InitAnswered(req[1])
    /\ Asked(req[1], "has_microphone")
    /\ BodyField(req[1], "has_video") = Bool(FALSE)
    /\ \A f \in MicrophoneFields : NonNull(Get(RespBody(req[1]), f))
    /\ \A f \in VideoFields : Get(RespBody(req[1]), f) = Null
    /\ req[2].route = "complete"
    /\ req[2].pc = "done"
    /\ Status(req[2]) = 201
    /\ BodyField(req[2], "video_path") = Undef
    /\ Get(RespBody(req[2]), "report_id") = Get(RespBody(req[1]), "report_id")
    /\ \E row \in reports :
          row.id = Get(RespBody(req[1]), "report_id") /\ row.video_path = Null

----------------------------------------------------------------------------
(* Failures and their answers *)

\* The handler of q ran past authentication and the configuration checks
HandlerRan(q) == q.route \in {"init", "complete"} /\ IsOk(q.verify) /\ env = FullEnv

\* Header parsing or token verification failed for q
VerificationFailed(q) == q.verify # <<"none">> /\ ~IsOk(q.verify)

\* Parsing the body of q as JSON failed, in a handler of the given routes
BodyParseFailed(q, routes) == HandlerRan(q) /\ q.route \in routes /\ q.body = BadJson

\* Storage failed to issue a grant q requested
GrantNotIssued(q) == \E i \in 1..Len(q.answers) : ~Issued(q.answers[i])

\* The handler of q read a field of a body that is null (an uncaught TypeError)
ExceptionThrown(q) ==
    /\ HandlerRan(q)
    /\ q.body = Json(Null)
    /\ q.route = "init" => (Len(q.answers) >= 1 /\ Issued(q.answers[1]))

\* A failure occurred while handling q; body parsing counted for the routes given
FailureOccurred(q, routes) ==
    \/ VerificationFailed(q)
    \/ BodyParseFailed(q, routes)
    \/ GrantNotIssued(q)
    \/ InsertRejected(q)
    \/ ExceptionThrown(q)

\* q was answered with an error status and a JSON body with an error field
AnsweredWithError(q) == Status(q) >= 400 /\ "error" \in DOMAIN RespBody(q)

\* C20: every request in whose handling a failure occurred (header parsing,
\* token verification, request-body parsing, grant issuance, database insert,
\* uncaught exception) is answered with a status >= 400 and a JSON body with
\* an error field.
C20_NoErrorSwallowed ==
    \A r \in DOMAIN req :
       (req[r].pc = "done" /\ FailureOccurred(req[r], {"init", "complete"}))
       => AnsweredWithError(req[r])

\* C20 (amended): as above, body parsing counted for complete only; the body
\* of init that fails to parse is read as {} and the request goes on.
C20_NoErrorSwallowedButInitBody ==
    \A r \in DOMAIN req :
       (req[r].pc = "done" /\ FailureOccurred(req[r], {"complete"}))
       => AnsweredWithError(req[r])

\* C20 witness: an uncaught exception in init, after its audio grant was
\* issued, was answered 500 with an error field.
C20_Witness ==
    \E r \in DOMAIN req :
       /\ req[r].pc = "done"
       /\ req[r].route = "init"
       /\ ExceptionThrown(req[r])
       /\ ~GrantNotIssued(req[r])
       /\ Status(req[r]) = 500
       /\ Get(RespBody(req[r]), "error") = Str(<<"Internal server error">>)

----------------------------------------------------------------------------
(* Outbound calls, the cache and the configuration *)

\* The cache entry a call finds makes getJWKS create a key set
Stale(cache, t) == cache.jwks = Null \/ t - cache.timestamp > JWKS_CACHE_TTL

\* C21: nothing is retried.  The key set is created only by a request's one
\* call of getJWKS, and only when it finds no entry or an expired one; a
\* request awaits jwtVerify once; it requests at most one grant per slot (at
\* most three for init, none for any other route) and attempts at most one
\* insert (none for init), whatever the answers were.
C21_NothingRetried ==
    /\ [](\A r \in DOMAIN req :
             LET q == req[r]
             IN /\ Len(q.grantReqs) <= 3
                /\ \A i, j \in 1..Len(q.grantReqs) :
                      i # j => q.grantReqs[i][2] # q.grantReqs[j][2]
                /\ Len(q.answers) <= Len(q.grantReqs)
                /\ q.route # "init" => q.grantReqs = <<>>
                /\ q.inserts <= 1
                /\ q.route # "complete" => q.inserts = 0)
    /\ [][/\ (jwksCache' # jwksCache \/ created' # created)
             => /\ \E r \in DOMAIN req :
                      /\ req[r].pc = "idle"
                      /\ req'[r].pc = "jwtVerify"
                      /\ Stale(jwksCache, now)
                /\ created' = created \cup {now}
          /\ \A r \in DOMAIN req :
                /\ req'[r].pc = "jwtVerify" => req[r].pc \in {"idle", "jwtVerify"}
                /\ Len(req'[r].grantReqs) <= Len(req[r].grantReqs) + 1
                /\ req'[r].inserts <= req[r].inserts + 1]_vars

\* C21 witness: an init request whose third grant failed was answered after
\* three grant requests, the key set having been created after an expiry.
C21_Witness ==
    \E r \in DOMAIN req :
       /\ req[r].route = "init"
       /\ req[r].pc = "done"
       /\ Len(req[r].grantReqs) = 3
       /\ ~Issued(req[r].answers[3])
       /\ Cardinality(created) = 2

\* The key-set fetch the jwtVerify call of q needed failed
FetchFailed(q) == q.usedJwks # Null /\ q.token = Str(<<"jwt">>) /\ ~q.fetched

\* C22: a request whose key-set fetch failed is answered 401 with a
\* CredentialRejected error as soon as jwtVerify returns, its handler's body
\* has not run (no user id, no report id, no grant request, no insert), and
\* jwtVerify is not awaited again.
C22_FetchFailureRejects ==
    /\ [](\A r \in DOMAIN req :
             FetchFailed(req[r]) =>
                /\ req[r].pc = "done"
                /\ CredentialRejected(req[r].verify)
                /\ Status(req[r]) = 401
                /\ Get(RespBody(req[r]), "error") = Str(req[r].verify[2])
                /\ req[r].userId = Undef
                /\ req[r].parsed = Undef
                /\ req[r].reportId = Undef
                /\ req[r].grantReqs = <<>>
                /\ req[r].inserts = 0)
    /\ [][\A r \in DOMAIN req :
             (req[r].pc = "jwtVerify" /\ req'[r].pc # "jwtVerify" /\ ~req'[r].fetched)
             => /\ req'[r].pc = "done"
                /\ reports' = reports
                /\ uuids' = uuids]_vars

\* C22 witness: a complete request with a valid token was answered 401
\* because the key set could not be fetched.
C22_Witness ==
    \E r \in DOMAIN req :
       /\ req[r].route = "complete"
       /\ FetchFailed(req[r])
       /\ ValidToken(req[r])
       /\ Status(req[r]) = 401
       /\ reports = {}

\* C23: a GET /health request is answered 200 {ok: true} whatever its
\* Authorization header, in the step that receives it; the token verifier is
\* not invoked (no header check, no key set got or used), and the step leaves
\* the key-set cache, the creations of key sets and the reports table as they
\* were and requests no grant and no insert.
C23_HealthIsOpen ==
    /\ [](\A r \in DOMAIN req :
             req[r].route = "health" =>
                /\ req[r].pc = "done"
                /\ req[r].resp = <<"resp", 200, [ok |-> Bool(TRUE)]>>
                /\ req[r].verify = <<"none">>
                /\ req[r].jwks = Null
                /\ req[r].usedJwks = Null
                /\ req[r].grantReqs = <<>>
                /\ req[r].inserts = 0)
    /\ [][\A r \in DOMAIN req :
             (req[r].route # "health" /\ req'[r].route = "health")
             => /\ jwksCache' = jwksCache
                /\ created' = created
                /\ reports' = reports
                /\ uuids' = uuids]_vars

\* C23 witness: a /health request without Authorization header was answered
\* 200 while the cached key set was expired, and the cache is as it found it.
C23_Witness ==
    \E r \in DOMAIN req :
       /\ req[r].route = "health"
       /\ req[r].hdr = Undef
       /\ Status(req[r]) = 200
       /\ jwksCache.jwks # Null
       /\ now - jwksCache.timestamp > JWKS_CACHE_TTL
       /\ jwksCache = req[r].cacheBefore

\* C24: a call of getJWKS replaces the cache entry exactly when it finds no
\* key set or one whose age is strictly greater than 3600000 ms; it then sets
\* the entry to a key set for the configured endpoint and to timestamp = now
\* in that one step, and returns that key set; otherwise, and so at an age of
\* exactly 3600000 ms, it leaves the entry alone and returns the cached set.
C24_ReplaceIffAbsentOrOlderThanTTL ==
    [][\A r \in DOMAIN req :
          Resolves(r) =>
             LET absent == jwksCache.jwks = Null
                 age == now - jwksCache.timestamp
             IN /\ jwksCache' # jwksCache <=> (absent \/ age > 3600000)
                /\ (absent \/ age > 3600000) =>
                      /\ jwksCache'.timestamp = now
                      /\ jwksCache'.jwks = <<"jwks", JwksUrl(env.SUPABASE_URL), now>>
                /\ (~absent /\ age = 3600000) => jwksCache' = jwksCache
                /\ req'[r].jwks = jwksCache'.jwks]_vars

\* C24 witness: a call found the cached key set exactly 3600000 ms old and
\* left the entry as it was.
C24_Witness ==
    \E r \in DOMAIN req :
       /\ req[r].pc = "jwtVerify"
       /\ req[r].cacheBefore.jwks # Null
       /\ req[r].resolvedAt - req[r].cacheBefore.timestamp = 3600000
       /\ req[r].jwks = req[r].cacheBefore.jwks
       /\ jwksCache = req[r].cacheBefore

\* C25: the key set a verifyToken call verifies against was created for the
\* well-known endpoint of the issuer location the call was made with.
C25_KeySetOfIssuerLocation ==
    \A r \in DOMAIN req :
       req[r].usedJwks # Null => KeysOf(req[r].usedJwks) = JwksUrl(env.SUPABASE_URL)

\* C26: when a call finds the entry absent or expired it replaces it, and
\* every other call in progress that resolves the key set at that time or up
\* to one TTL later gets that replacement, the entry's timestamp being the
\* first call's time; no other key set is created in that window.
C26_OneWriterPerWindow ==
    \A r1 \in DOMAIN req :
       (/\ req[r1].jwks # Null
        /\ Stale(req[r1].cacheBefore, req[r1].resolvedAt))
       => /\ \A r2 \in DOMAIN req :
                (/\ r2 # r1
                 /\ req[r2].jwks # Null
                 /\ req[r1].resolvedAt <= req[r2].resolvedAt
                 /\ req[r2].resolvedAt <= req[r1].resolvedAt + JWKS_CACHE_TTL)
                => /\ req[r2].jwks = req[r1].jwks
                   /\ req[r2].seenTimestamp = req[r1].resolvedAt
          /\ \A t \in created :
                (req[r1].resolvedAt <= t /\ t <= req[r1].resolvedAt + JWKS_CACHE_TTL)
                => t = req[r1].resolvedAt

\* C26 witness: after an expiry one call replaced the entry and a second
\* call, in progress with it and made exactly one TTL later, got the
\* replacement.
C26_Witness ==
    \E r1, r2 \in DOMAIN req :
       /\ r1 # r2
       /\ req[r1].pc = "jwtVerify"
       /\ req[r2].pc = "jwtVerify"
       /\ req[r1].cacheBefore.jwks # Null
       /\ Stale(req[r1].cacheBefore, req[r1].resolvedAt)
       /\ req[r2].resolvedAt = req[r1].resolvedAt + JWKS_CACHE_TTL
       /\ req[r2].jwks = req[r1].jwks
       /\ Cardinality(created) = 2

\* verifyToken failed for q after getJWKS had returned
FailedAfterResolving(q) == q.pc = "done" /\ q.usedJwks # Null /\ ~IsOk(q.verify)

\* C27: when verifyToken fails after resolving the key set, the cache entry
\* (value and timestamp) is the one that was there before the call.
C27_FailureLeavesCacheAsBefore ==
    \A r \in DOMAIN req :
       FailedAfterResolving(req[r]) => jwksCache = req[r].cacheBefore

\* C27 (amended): when verifyToken fails after resolving the key set, the
\* cache entry is the one getJWKS left when the call began: the entry from
\* before the call if that held a key set no older than the TTL, and else a
\* new key set with the call's time as timestamp; the failure changes nothing
\* of it.
C27_FailureKeepsResolvedEntry ==
    \A r \in DOMAIN req :
       FailedAfterResolving(req[r]) =>
          jwksCache =
             IF Stale(req[r].cacheBefore, req[r].resolvedAt)
             THEN [jwks |-> <<"jwks", JwksUrl(env.SUPABASE_URL), req[r].resolvedAt>>,
                   timestamp |-> req[r].resolvedAt]
             ELSE req[r].cacheBefore

\* C27 witness: a call that found the cache empty failed on a key-set fetch
\* failure, and the cache holds a key set with the call's time.
C27_Witness ==
    \E r \in DOMAIN req :
       /\ FailedAfterResolving(req[r])
       /\ FetchFailed(req[r])
       /\ req[r].cacheBefore.jwks = Null
       /\ jwksCache.jwks # Null
       /\ jwksCache.timestamp = req[r].resolvedAt

\* verifyToken failed for q on the header check
FailedOnHeader(q) == q.verify # <<"none">> /\ MalformedCredential(q.verify)

\* C28: a call that fails on the header check got no key set from the cache
\* and used none, and the step in which it fails leaves the cache entry and
\* the creations of key sets as they were, whether the entry is absent,
\* expired or within its TTL.
C28_HeaderFailureLeavesCache ==
    /\ [](\A r \in DOMAIN req :
             FailedOnHeader(req[r]) =>
                /\ req[r].pc = "done"
                /\ Status(req[r]) = 401
                /\ req[r].jwks = Null
                /\ req[r].usedJwks = Null
                /\ ~req[r].fetched)
    /\ [][\A r \in DOMAIN req :
             (~FailedOnHeader(req[r]) /\ FailedOnHeader(req'[r]))
             => /\ jwksCache' = jwksCache
                /\ created' = created]_vars

\* C28 witness: a call with a malformed header failed while the cached key
\* set was expired, and the expired entry is still there.
C28_Witness ==
    \E r \in DOMAIN req :
       /\ req[r].verify = Throw(MsgInvalidFormat)
       /\ jwksCache.jwks # Null
       /\ req[r].resolvedAt = 0
       /\ now - jwksCache.timestamp > JWKS_CACHE_TTL
       /\ jwksCache = req[r].cacheBefore

\* What an external service answered, without the report id in it
Shape(ans) ==
    <<ans[1], ans[1] = "data" /\ Truthy(ans[2].signedUrl), ans[1] = "data" /\ ~IsNullish(ans[2].token)>>

\* Two requests carry the same header, token and body to the same route
SameRequest(q1, q2) ==
    /\ q1.route = q2.route
    /\ q1.hdr = q2.hdr
    /\ q1.tok = q2.tok
    /\ q1.body = q2.body

\* Two requests got the same from the cache and from the external services
SameAnswers(q1, q2) ==
    /\ q1.jwks = q2.jwks
    /\ q1.usedJwks = q2.usedJwks
    /\ q1.fetched = q2.fetched
    /\ Len(q1.answers) = Len(q2.answers)
    /\ \A i \in 1..Len(q1.answers) : Shape(q1.answers[i]) = Shape(q2.answers[i])
    /\ q1.dbAnswer = q2.dbAnswer

\* A response without the report id in it: the status and the fields set
Outline(q) ==
    IF q.resp = Undef THEN <<>>
    ELSE <<Status(q), {f \in DOMAIN RespBody(q) : RespBody(q)[f] # Null},
           Get(RespBody(q), "error")>>

NoServiceCall(q) == q.grantReqs = <<>> /\ q.inserts = 0 /\ q.dbAnswer = Undef

\* q was answered 500 by authMiddleware before any header or token check
AnsweredBeforeAuth(q) ==
    /\ Status(q) = 500
    /\ q.verify = <<"none">>
    /\ q.token = Undef
    /\ q.jwks = Null
    /\ NoServiceCall(q)

\* The answers of the routes given when only SUPABASE_SERVICE_ROLE_KEY is
\* absent: 401 on a failed verification, 500 on a passed one
KeyCheckedAfterAuth(q, routes) ==
    q.route \in routes =>
       /\ ~IsOk(q.verify) => Status(q) = 401
       /\ IsOk(q.verify) => (Status(q) = 500 /\ NoServiceCall(q))

ProtectedRoutes == {"init", "complete", "legacy"}

\* C30: with SUPABASE_URL absent every protected request is answered 500
\* before any header or token check; with only SUPABASE_SERVICE_ROLE_KEY
\* absent a protected request is answered 401 when verification fails and 500
\* when it passes; no storage or database call is made in the 500 cases.
C30_ConfigChecksAroundAuth ==
    \A r \in DOMAIN req :
       req[r].pc = "done" =>
          /\ env = NoUrlEnv => AnsweredBeforeAuth(req[r])
          /\ env = NoKeyEnv => KeyCheckedAfterAuth(req[r], ProtectedRoutes)

\* C30 (amended): as above, the 500 on a passed verification being the
\* answer of init and complete; the legacy POST /reports, which uses no
\* service, is answered 400 when verification passes, as it is with the key
\* present.
C30_ConfigChecksOfInitAndComplete ==
    \A r \in DOMAIN req :
       req[r].pc = "done" =>
          /\ env = NoUrlEnv => AnsweredBeforeAuth(req[r])
          /\ env = NoKeyEnv =>
                /\ KeyCheckedAfterAuth(req[r], {"init", "complete"})
                /\ req[r].route = "legacy" =>
                      /\ ~IsOk(req[r].verify) => Status(req[r]) = 401
                      /\ IsOk(req[r].verify) => Status(req[r]) = 400
                      /\ NoServiceCall(req[r])

\* C30 witness: with only the service key absent an init request with a
\* verified token was answered 500 and no grant was requested.
C30_Witness ==
    \E r \in DOMAIN req :
       /\ env = NoKeyEnv
       /\ req[r].route = "init"
       /\ req[r].pc = "done"
       /\ IsOk(req[r].verify)
       /\ Status(req[r]) = 500
       /\ RespBody(req[r]) = [error |-> MsgConfig]
       /\ NoServiceCall(req[r])

----------------------------------------------------------------------------
(* The bodies the handlers are sent *)

\* C31: an authenticated complete request whose body is not parseable JSON
\* is answered 400 'Invalid JSON body' with no insert attempted; the
\* report_id check is not reached (the body is never read and the answer is
\* not the 'Missing report_id' one).
C31_UnparseableBodyIs400 ==
    \A r \in DOMAIN req :
       (ReachedComplete(req[r]) /\ req[r].body = BadJson)
       => /\ req[r].pc = "done"
          /\ Status(req[r]) = 400
          /\ RespBody(req[r]) = [error |-> Str(<<"Invalid JSON body">>)]
          /\ req[r].failed = <<"json">>
          /\ req[r].parsed = Undef
          /\ NoServiceCall(req[r])
          /\ req[r].row = Undef

\* C31 witness: a verified complete request with an unparseable body was
\* answered 400 and the table is as it was.
C31_Witness ==
    \E r \in DOMAIN req :
       /\ ReachedComplete(req[r])
       /\ req[r].body = BadJson
       /\ req[r].pc = "done"
       /\ Status(req[r]) = 400
       /\ req[r].inserts = 0
       /\ reports = {}

\* Authentication and the configuration checks let the init request q
\* through to its handler's body
ReachedInit(q) ==
    /\ q.route = "init"
    /\ q.pc \in {"audio", "mic", "video", "done"}
    /\ IsOk(q.verify)
    /\ env = FullEnv

\* C32: an authenticated init request whose body is absent or not parseable
\* JSON goes on with the body {}: it requests the audio grant and no other,
\* and once it is answered the answer is 200 with null microphone and video
\* fields if the audio grant succeeded, 500 if it did not, never 400.
C32_UnparseableInitBodyIsEmptyObject ==
    \A r \in DOMAIN req :
       (ReachedInit(req[r]) /\ req[r].body = BadJson)
       => /\ req[r].parsed = Obj(EmptyObj)
          /\ req[r].grantReqs = <<<<BUCKET_AUDIO, AudioPath(req[r].reportId)>>>>
          /\ req[r].pc \in {"audio", "done"}
          /\ req[r].pc = "done" =>
                /\ Status(req[r]) # 400
                /\ Status(req[r]) = 200 <=> ~GrantFailed(req[r].answers[1])
                /\ Status(req[r]) = 200 =>
                      \A f \in MicrophoneFields \cup VideoFields :
                         Get(RespBody(req[r]), f) = Null

\* C32 witness: an init request with an unparseable body was answered 200
\* with the audio grant alone.
C32_Witness ==
    \E r \in DOMAIN req :
       /\ ReachedInit(req[r])
       /\ req[r].body = BadJson
       /\ req[r].pc = "done"
       /\ Status(req[r]) = 200
       /\ Len(req[r].grantReqs) = 1
       /\ Truthy(Get(RespBody(req[r]), "audio_upload_url"))
       /\ Get(RespBody(req[r]), "microphone_upload_url") = Null
       /\ Get(RespBody(req[r]), "video_path") = Null

----------------------------------------------------------------------------
(* The grant requests of one init request *)

\* The place of a grant request in the order audio, microphone, video
SlotRank(q, greq) ==
    CASE greq = <<BUCKET_AUDIO, AudioPath(q.reportId)>> -> 1
      [] greq = <<BUCKET_AUDIO, MicrophonePath(q.reportId)>> -> 2
      [] greq = <<BUCKET_VIDEO, VideoPath(q.reportId)>> -> 3
      [] OTHER -> 0

\* C33: within one init request the grant requests are issued in the order
\* audio, microphone, video, the first being the audio one, and each after the
\* first is issued only when the one before it has returned successfully: a
\* failed audio grant is followed by no microphone or video request, a failed
\* microphone grant by no video request.
C33_GrantsInOrderAfterSuccess ==
    \A r \in DOMAIN req :
       req[r].route = "init" =>
          LET g == req[r].grantReqs
              a == req[r].answers
          IN /\ g # <<>> => SlotRank(req[r], g[1]) = 1
             /\ \A i \in 2..Len(g) :
                   /\ SlotRank(req[r], g[i]) > SlotRank(req[r], g[i - 1])
                   /\ Len(a) >= i - 1
                   /\ ~GrantFailed(a[i - 1])
             /\ Len(a) <= Len(g)
             /\ Len(g) <= Len(a) + 1
             /\ \A i \in 1..Len(a) : GrantFailed(a[i]) => Len(g) = i

\* C33 witness: the audio grant succeeded, the microphone grant failed, and
\* the request that asked for video too was answered with no video request.
C33_Witness ==
    \E r \in DOMAIN req :
       /\ req[r].route = "init"
       /\ req[r].pc = "done"
       /\ Asked(req[r], "has_microphone")
       /\ Asked(req[r], "has_video")
       /\ Len(req[r].answers) = 2
       /\ ~GrantFailed(req[r].answers[1])
       /\ GrantFailed(req[r].answers[2])
       /\ Len(req[r].grantReqs) = 2
       /\ SlotRank(req[r], req[r].grantReqs[2]) = 2
       /\ Status(req[r]) = 500

\* The url, token and path fields of a slot in the 200 response of init
SlotFields(slot) ==
    {slot \o "_upload_url", slot \o "_upload_token", slot \o "_path"}

\* The slot was requested by q: audio always, the others by their flag
SlotRequested(q, slot) ==
    CASE slot = "audio" -> TRUE
      [] slot = "microphone" -> Asked(q, "has_microphone")
      [] OTHER -> Asked(q, "has_video")

\* C34: in every 200 response of init each slot is all-or-nothing: the url,
\* the token and the path of a requested slot are all non-null, those of a
\* slot that was not requested are all null, whichever answer of the storage
\* service the handler accepted as a success.
C34_SlotsAllOrNothing ==
    \A r \in DOMAIN req :
       (req[r].route = "init" /\ req[r].pc = "done" /\ Status(req[r]) = 200) =>
          \A slot \in {"audio", "microphone", "video"} :
             IF SlotRequested(req[r], slot)
             THEN \A f \in SlotFields(slot) : NonNull(Get(RespBody(req[r]), f))
             ELSE \A f \in SlotFields(slot) : Get(RespBody(req[r]), f) = Null

----------------------------------------------------------------------------
(* The metadata of a row *)

\* The optional fields read with `|| null`, and those read with
\* `!== undefined ? ... : null`
TextFields ==
    {"game_name", "offender_name", "description", "desired_action",
     "recording_start_utc", "flag_utc"}
ExactFields == {"targeted", "clip_start_offset_sec", "clip_end_offset_sec"}

\* A row was built for the complete request q
RowBuilt(q) == q.route = "complete" /\ q.row # Undef

\* C35: in the row built by complete every optional metadata field omitted
\* from the body is null, and every one supplied is persisted as given,
\* targeted = false and clip offsets of 0 included.
C35_OmittedNullSuppliedAsGiven ==
    \A r \in DOMAIN req :
       RowBuilt(req[r]) =>
          \A f \in TextFields \cup ExactFields :
             req[r].row[2][f] =
                IF BodyField(req[r], f) = Undef THEN Null ELSE BodyField(req[r], f)

\* C35 (amended): every optional metadata field omitted from the body is
\* null in the row; targeted and the clip offsets are persisted as given
\* whenever supplied (false and 0 included); a text field is persisted as
\* given when it is a non-empty string, and as null when it is empty.
C35_OmittedOrEmptyTextNull ==
    \A r \in DOMAIN req :
       RowBuilt(req[r]) =>
          /\ \A f \in ExactFields :
                req[r].row[2][f] =
                   IF BodyField(req[r], f) = Undef THEN Null ELSE BodyField(req[r], f)
          /\ \A f \in TextFields :
                req[r].row[2][f] =
                   IF NonEmpty(BodyField(req[r], f)) THEN BodyField(req[r], f) ELSE Null

\* C35 witness: a stored row with targeted false and a start offset of 0 as
\* given, its end offset omitted and null, its description empty and null.
C35_Witness ==
    \E r \in DOMAIN req :
       /\ RowBuilt(req[r])
       /\ req[r].pc = "done"
       /\ req[r].row[2] \in reports
       /\ BodyField(req[r], "targeted") = Bool(FALSE)
       /\ req[r].row[2].targeted = Bool(FALSE)
       /\ BodyField(req[r], "clip_start_offset_sec") = Num(0)
       /\ req[r].row[2].clip_start_offset_sec = Num(0)
       /\ BodyField(req[r], "clip_end_offset_sec") = Undef
       /\ req[r].row[2].clip_end_offset_sec = Null
       /\ BodyField(req[r], "description") = Str(<<>>)
       /\ req[r].row[2].description = Null
       /\ req[r].row[2].game_name = Str(<<"game">>)

----------------------------------------------------------------------------
(* complete and the paths it is given *)

PathFields == {"audio_path", "microphone_path", "video_path"}

\* The paths of q are the ones init issues for its report_id
PathsAsIssued(q) ==
    /\ BodyField(q, "audio_path") = AudioPath(BodyField(q, "report_id"))
    /\ BodyField(q, "microphone_path") \in {Undef, MicrophonePath(BodyField(q, "report_id"))}
    /\ BodyField(q, "video_path") \in {Undef, VideoPath(BodyField(q, "report_id"))}

\* The complete request q was verified, names a report_id and was answered
CompleteAnswered(q) ==
    /\ ReachedComplete(q)
    /\ q.pc = "done"
    /\ NonEmpty(BodyField(q, "report_id"))

----------------------------------------------------------------------------
(* Who owns a report *)

\* The init request p was answered 200 with the report_id that the complete
\* request q names
ObtainedBy(p, q) ==
    /\ p.route = "init"
    /\ p.pc = "done"
    /\ Status(p) = 200
    /\ Get(RespBody(p), "report_id") = BodyField(q, "report_id")

\* C37: init does not bind a report_id to its caller: a complete request of
\* a verified subject naming a report_id that init returned to another
\* subject gets to the database like any other and, no row with that id
\* being there and the database accepting the insert, is answered 201 with
\* the row stored under the subject of the complete request; every stored
\* row built by a request is owned by that request's subject, whoever called
\* init.
C37_ReportIdNotBoundToCaller ==
    \A r \in DOMAIN req :
       \A p \in DOMAIN req :
          (/\ ReachedComplete(req[r])
           /\ ObtainedBy(req[p], req[r]))
          => /\ req[r].inserts = 1
             /\ req[r].row[2].user_id = req[r].userId
             /\ req[r].row[2].user_id = VerifiedSubject(req[r])
             /\ req[r].pc = "done" =>
                   /\ Status(req[r]) = 201 <=> req[r].dbAnswer = DbOk
                   /\ req[r].dbAnswer \in {DbOk, DbError("connection failure")}
                   /\ Status(req[r]) = 201 => req[r].row[2] \in reports
                   /\ \A row \in reports :
                         row.id = BodyField(req[r], "report_id") =>
                            row.user_id = VerifiedSubject(req[r])

\* C37 witness: subject A obtained a report_id from init, subject B called
\* complete with it and was answered 201; the stored row is B's.
C37_Witness ==
    \E p, r \in DOMAIN req :
       /\ ReachedComplete(req[r])
       /\ ObtainedBy(req[p], req[r])
       /\ req[p].userId = UserA
       /\ req[r].userId = UserB
       /\ req[r].pc = "done"
       /\ Status(req[r]) = 201
       /\ \E row \in reports :
             row.id = Get(RespBody(req[p]), "report_id") /\ row.user_id = UserB

----------------------------------------------------------------------------
(* The userId the handlers read *)

\* The failures authMiddleware answers itself, without calling the handler
MiddlewareFailures == {"config", "header", "verify"}

\* The body of the init or complete handler ran for q: q waits on a call of
\* the handler, or was answered by it
HandlerBodyRan(q) ==
    /\ q.route \in {"init", "complete"}
    /\ \/ q.pc \in {"audio", "mic", "video", "insert"}
       \/ /\ q.pc = "done"
          /\ \A i \in 1..Len(q.failed) : q.failed[i] \notin MiddlewareFailures

\* C38: whenever the body of the init or complete handler runs, the userId
\* it reads is the non-empty subject verifyToken produced in the same
\* request; the handlers' 401 'User ID not found in token' is never the
\* answer, and user_id is never empty or null in a row built or stored.
C38_HandlerSeesVerifiedSubject ==
    /\ \A r \in DOMAIN req :
          /\ HandlerBodyRan(req[r]) =>
                /\ req[r].verify = Ok(req[r].userId)
                /\ req[r].userId = VerifiedSubject(req[r])
                /\ NonEmpty(req[r].userId)
          /\ req[r].pc = "done" =>
                /\ RespBody(req[r]) # [error |-> MsgUserIdMissing]
                /\ "precheck" \in {req[r].failed[i] : i \in 1..Len(req[r].failed)}
                      => Status(req[r]) = 500
          /\ req[r].row # Undef => NonEmpty(req[r].row[2].user_id)
    /\ \A row \in reports : NonEmpty(row.user_id)

\* C38 witness: a complete request whose properly signed token has an empty
\* sub was answered 401 by the middleware, its handler never run; before it
\* a row was stored for a request with a subject.
C38_Witness ==
    \E r \in DOMAIN req :
       /\ req[r].route = "complete"
       /\ req[r].pc = "done"
       /\ req[r].tok = TokenOf(URL1, Str(<<>>))
       /\ req[r].fetched
       /\ ~HandlerBodyRan(req[r])
       /\ Status(req[r]) = 401
       /\ RespBody(req[r]).error = Str(<<MsgJwtFailed, "Token missing sub claim">>)
       /\ req[r].inserts = 0
       /\ \E row \in reports : row.user_id = UserA

----------------------------------------------------------------------------
(* Every request is answered *)

ResponseStatuses == {200, 201, 400, 401, 404, 500}

\* The request in slot r is being handled: it waits on an external call
Pending(r) == req[r].pc \notin {"idle", "done"}

\* A request has no response before it is answered, and a response with a
\* status of the list once it is
AnsweredWithin(q) ==
    IF q.pc = "done" THEN q.resp # Undef /\ Status(q) \in ResponseStatuses
    ELSE q.resp = Undef

\* An answered request stays as it was answered: no second response
AnsweredOnce(r) == req[r].pc = "done" => req'[r] = req[r]

====
